---- MODULE Spec2Model ----
(***************************************************************************)
(* Verification model of the resume / progress-tracking subsystem of the   *)
(* SNC investor scraper: Work Selector (search_page_helper.py), Resume     *)
(* Planner (state_manager.py), snapshot files and in-memory tracker        *)
(* (snc_scraper_service.py), page flow (page_orchestrator.py,              *)
(* vc_orchestrator.py) and Cache Index (vc_cache_manager.py).              *)
(*                                                                         *)
(* Encoding of Python values.  A Python str is a sequence of one-character *)
(* strings when the code splits it (URLs, identifiers) and a sequence of   *)
(* tokens otherwise; a Python list is a sequence; None is the one-element  *)
(* sequence PyNone, which no str or list of the model equals.  The empty   *)
(* str and the empty list are both << >>: the code only tests them for     *)
(* truthiness.                                                             *)
(***************************************************************************)
EXTENDS Integers, Sequences, FiniteSets, TLC

VARIABLES
    cls_rec,        \* determine_vc_status: the record passed in
    cls_out,        \* determine_vc_status: the value returned ("none" before the call)
    sel_links,      \* filter_unscraped_vcs: all_vc_links
    sel_existing,   \* filter_unscraped_vcs: existing_vcs
    sel_out,        \* filter_unscraped_vcs: the list returned
    sel_pc,         \* "ready" before the call; after it "done", or the name of the call
    results_exists, \* os.path.exists(results_dir)
    files,          \* the results directory: file name -> file content
    clock,          \* datetime.now(), in whole seconds
    ret,            \* the value the last call on the results directory returned (for
                    \* load_previous_state also the value stored in scraper.target_page)
    last_save,      \* the arguments of the most recent save_page_with_enhanced_metadata
    resume_call,    \* the arguments and conditions of the most recent resume planner call
    vc_status,      \* SNCVCScraper.vc_status: vc_id -> entry
    completed_pages,\* SNCVCScraper.completed_pages
    current_page,   \* SNCVCScraper.current_page
    progress_files, \* the progress directory: file name -> file content
    trk_last,       \* the page of the last _update_page_completion call, 0 after other calls
    run_pc,         \* "idle" between sessions, "scraping" inside scrape_vcs_in_parallel_tabs
    vcs_to_scrape,  \* the URLs of the batch not processed yet
    existing_page_vcs,   \* process_single_page: the records loaded for the page
    all_results,    \* scrape_vcs_in_parallel_tabs: the records collected so far
    rate_limit_detected, \* SNCVCScraper.rate_limit_detected
    outcome,        \* observation: URL -> how its most recent scrape attempt ended
    session,        \* observation of the current run_single_page_session call: whether a
                    \* KeyboardInterrupt was delivered, the vc_status save_current_state
                    \* wrote, and how the call ended
    cache_data,     \* VCCacheManager.cache_data: slug -> entry
    cache_file,     \* the cache file: whether it exists and the JSON object it holds
    cache_file_path,\* the path given to VCCacheManager, as its sequence of segments
    cache_is_dict,  \* isinstance(cache_data, dict): FALSE when the file held another JSON value
    cache_ret,      \* the last VCCacheManager call: operation, slug and returned value
    investors_data, \* InvestorDataManager.investors_data: database key -> url and status
    db_session,     \* the last direct investor session: who was selected, what the site
                    \* answered, how the session ended
    id_url,         \* a URL whose identifier the components derive
    id_derived,     \* the identifier each component derived from id_url
    writers,        \* the sessions saving a snapshot of one unit: where each is in
                    \* save_page_with_enhanced_metadata and what it writes
    write_log,      \* the sessions in the order their writes finished
    pages_call,     \* scrape_pages: the arguments and what the site does
    pages_ret       \* scrape_pages: the page number returned and the last page passed to
                    \* process_single_page ("none" before the call)

selVars == <<sel_links, sel_existing, sel_out, sel_pc>>
clsVars == <<cls_rec, cls_out>>
diskVars == <<results_exists, files, clock, ret, last_save, resume_call>>
trkVars == <<vc_status, completed_pages, current_page, progress_files, trk_last>>
cacheVars == <<cache_data, cache_file, cache_file_path, cache_is_dict, cache_ret>>
runVars == <<run_pc, vcs_to_scrape, existing_page_vcs, all_results, rate_limit_detected, outcome,
             session>>

----------------------------------------------------------------------------
(* Python values *)

PyNone == <<"<None>">>

\* a time that is None or '' (times count seconds from 0)
NoTime == -1
EmptyStr == << >>
EmptyList == << >>

\* bool(v) for a str, a list or None
Truthy(v) == v # PyNone /\ v # << >>

\* bool(l) for a list of dicts; the None that the loaders return for "no data" is
\* passed on as the empty list, which every caller treats alike ("if not existing_vcs")
TruthyList(l) == Len(l) > 0

SeqToSet(s) == {s[i] : i \in DOMAIN s}

NoDuplicates(s) == \A i, j \in DOMAIN s : i # j => s[i] # s[j]

\* The sequences over S of length at most n
SeqsUpTo(S, n) == UNION {[1..k -> S] : k \in 0..n}

\* SelectSeq with a numbered predicate is not needed: the code's loops append in order
RECURSIVE FilterSeq(_, _)
FilterSeq(s, keepSet) ==
    IF s = << >> THEN << >>
    ELSE IF Head(s) \in keepSet
         THEN <<Head(s)>> \o FilterSeq(Tail(s), keepSet)
         ELSE FilterSeq(Tail(s), keepSet)

----------------------------------------------------------------------------
(* URLs and identifiers *)

\* url.split('/')[-1]: the characters after the last '/', the whole str without one
SlashPositions(url) == {i \in DOMAIN url : url[i] = "/"}

LastSegment(url) ==
    LET ps == SlashPositions(url)
        last == IF ps = {} THEN 0 ELSE CHOOSE i \in ps : \A j \in ps : j <= i
    IN SubSeq(url, last + 1, Len(url))

\* vc_id = url.split('/')[-1] if '/' in url else url
UrlVcId(url) == IF SlashPositions(url) # {} THEN LastSegment(url) ELSE url

UrlA == <<"p", "/", "a">>
UrlB == <<"p", "/", "b">>
UrlC == <<"p", "/", "c">>
UrlASlash == <<"p", "/", "a", "/">>
UrlBare == <<"b">>

IdA == <<"a">>
IdB == <<"b">>
IdC == <<"c">>

----------------------------------------------------------------------------
(* Item records: the dicts of a snapshot's "vcs" list *)

KeyOverviewFields == {"founded", "overview", "exits", "investment_stages"}

NotApplicable == <<"N/A">>
SomeText == <<"text">>
OneInvestment == <<"inv">>

\* A dict as overview_scraper.py / vc_orchestrator.py build it; a missing key reads as
\* PyNone through dict.get
VcRecord(isDict, vcId, name, founded, overview, exits, stages, investments, status, vtype, scrapedAt) ==
    [is_dict |-> isDict, vc_id |-> vcId, name |-> name, founded |-> founded,
     overview |-> overview, exits |-> exits, investment_stages |-> stages,
     investments |-> investments, status |-> status, validation_type |-> vtype,
     scraped_at |-> scrapedAt]

\* complete_data of scrape_investor_complete_with_investments for a page with
\* investments, its overview scraped at time scrapedAt
ScrapedRecordAt(vcId, scrapedAt) ==
    VcRecord(TRUE, vcId, SomeText, SomeText, SomeText, NotApplicable, NotApplicable,
             OneInvestment, PyNone, PyNone, scrapedAt)

\* the same for an investor whose investments tab yields nothing
NoInvestmentsRecordAt(vcId, scrapedAt) ==
    VcRecord(TRUE, vcId, SomeText, SomeText, SomeText, NotApplicable, NotApplicable,
             EmptyList, PyNone, PyNone, scrapedAt)

\* records of an earlier run, scraped at time 0
ScrapedRecord(vcId) == ScrapedRecordAt(vcId, 0)
NoInvestmentsRecord(vcId) == NoInvestmentsRecordAt(vcId, 0)

\* the validation_result dict of _validate_vc_page: its scraped_at is ''
ValidationRecord(vcId, kind) ==
    VcRecord(TRUE, vcId, <<"Not Scraped">>, PyNone, EmptyStr, PyNone, PyNone,
             EmptyList, <<kind>>, <<kind>>, NoTime)

\* an entry of the list that is not a dict
NonDictEntry ==
    VcRecord(FALSE, PyNone, PyNone, PyNone, PyNone, PyNone, PyNone, PyNone, PyNone, PyNone,
             NoTime)

----------------------------------------------------------------------------
(* Work Selector: search_page_helper.py *)

determine_vc_status_AllKeyFields(vc_data) ==
    IF ~vc_data.is_dict THEN "not_scraped"
    ELSE LET has_key_overview == \A f \in KeyOverviewFields : Truthy(vc_data[f])
             has_investments == Truthy(vc_data.investments)
         IN IF has_key_overview /\ has_investments THEN "scraped" ELSE "not_scraped"

determine_vc_status(vc_data) ==
    IF ~vc_data.is_dict THEN "not_scraped"
    ELSE LET has_key_overview == \E f \in KeyOverviewFields : Truthy(vc_data[f])
             has_investments == Truthy(vc_data.investments)
         IN IF has_key_overview /\ has_investments THEN "scraped" ELSE "not_scraped"

\* scraped_vc_ids of filter_unscraped_vcs: vc.get('vc_id', '') of the dicts whose vc_id is
\* truthy and that determine_vc_status classifies "scraped"
ScrapedVcIds(existing_vcs) ==
    {existing_vcs[i].vc_id : i \in {j \in DOMAIN existing_vcs :
        /\ existing_vcs[j].is_dict
        /\ Truthy(existing_vcs[j].vc_id)
        /\ determine_vc_status(existing_vcs[j]) = "scraped"}}

filter_unscraped_vcs(all_vc_links, existing_vcs) ==
    IF ~TruthyList(existing_vcs) THEN all_vc_links
    ELSE LET scraped_vc_ids == ScrapedVcIds(existing_vcs)
         IN FilterSeq(all_vc_links,
                      {u \in SeqToSet(all_vc_links) : UrlVcId(u) \notin scraped_vc_ids})

----------------------------------------------------------------------------
(* Snapshot files of the results directory: snc_scraper_service.py *)

\* f"page_{page_num}_{status}_{len(vcs)}_vcs_{timestamp}.json", kept as its parts;
\* NameText spells it out
FileName(page_num, status, count, timestamp) ==
    [page |-> page_num, status |-> status, count |-> count, ts |-> timestamp]

\* str(n) for 0 <= n
DigitChars == <<"0", "1", "2", "3", "4", "5", "6", "7", "8", "9">>
RECURSIVE Str(_)
Str(n) == IF n < 10 THEN <<DigitChars[n + 1]>>
          ELSE Str(n \div 10) \o <<DigitChars[(n % 10) + 1]>>

\* the text of a file name: digits and separators one character each, the status word
\* one token
NameText(filename) ==
    <<"page", "_">> \o Str(filename.page) \o <<"_", filename.status, "_">>
        \o Str(filename.count) \o <<"_", "vcs", "_">> \o Str(filename.ts) \o <<".json">>

StartsWith(text, prefix) ==
    /\ Len(prefix) <= Len(text)
    /\ \A i \in 1..Len(prefix) : text[i] = prefix[i]

\* filename.startswith(f'page_{page_num}_') and filename.endswith('.json')
IsPageFile(filename, page_num) ==
    /\ StartsWith(NameText(filename), <<"page", "_">> \o Str(page_num) \o <<"_">>)
    /\ NameText(filename)[Len(NameText(filename))] = ".json"

\* f'_{word}_' in filename, 'completed' in filename
NameContains(filename, word) ==
    \E i \in 1..Len(NameText(filename)) : NameText(filename)[i] = word

\* page_data of save_page_with_enhanced_metadata: {"metadata": {...}, "vcs": vcs}
EnhancedContent(page_num, status, vcs) ==
    [format |-> "enhanced", page_number |-> page_num, status |-> status,
     total_vcs |-> Len(vcs), vcs |-> vcs]

\* a bare JSON array of item records
LegacyContent(vcs) ==
    [format |-> "list", page_number |-> 0, status |-> "", total_vcs |-> 0, vcs |-> vcs]

\* a file json.load cannot parse
CorruptContent ==
    [format |-> "corrupt", page_number |-> 0, status |-> "", total_vcs |-> 0, vcs |-> << >>]

\* a file whose bytes do not decode as text: reading it raises UnicodeDecodeError, which
\* is no JSONDecodeError
UnreadableContent ==
    [format |-> "unreadable", page_number |-> 0, status |-> "", total_vcs |-> 0,
     vcs |-> << >>]

Restrict(f, S) == [x \in S |-> f[x]]

\* os.listdir: the names in any order
Listings(fs) ==
    {order \in [1..Cardinality(DOMAIN fs) -> DOMAIN fs] :
        \A i, j \in DOMAIN order : i # j => order[i] # order[j]}

\* the variant whose prefix test lacks the closing "_"
_remove_old_page_files_OpenPrefix(fs, page_num, status_list) ==
    Restrict(fs, {n \in DOMAIN fs :
        ~(StartsWith(NameText(n), <<"page", "_">> \o Str(page_num))
          /\ \E st \in status_list : NameContains(n, st))})

_remove_old_page_files(fs, page_num, status_list) ==
    Restrict(fs, {n \in DOMAIN fs :
        ~(IsPageFile(n, page_num) /\ \E st \in status_list : NameContains(n, st))})

\* the results directory after save_page_with_enhanced_metadata(page_num, vcs, status)
save_page_with_enhanced_metadata(fs, page_num, vcs, status, timestamp) ==
    LET kept == IF status = "completed"
                THEN _remove_old_page_files(fs, page_num, {"in_progress", "partial"})
                ELSE fs
    IN (FileName(page_num, status, Len(vcs), timestamp)
            :> EnhancedContent(page_num, status, vcs)) @@ kept

\* ([], None, None) of load_page_with_enhanced_metadata, (None, None) of
\* load_existing_page_data
NoPageData == [vcs |-> << >>, status |-> "None"]

FirstPageFile(order, page_num) ==
    LET idx == {i \in DOMAIN order : IsPageFile(order[i], page_num)}
    IN order[CHOOSE i \in idx : \A j \in idx : i <= j]

\* (vcs_list, status) of load_page_with_enhanced_metadata; order is what os.listdir gave
load_page_with_enhanced_metadata(exists, fs, order, page_num) ==
    IF ~exists THEN NoPageData
    ELSE IF \A i \in DOMAIN order : ~IsPageFile(order[i], page_num) THEN NoPageData
    ELSE LET filename == FirstPageFile(order, page_num)
             data == fs[filename]
         IN CASE data.format \in {"corrupt", "unreadable"} -> NoPageData
              [] data.format = "enhanced" -> [vcs |-> data.vcs, status |-> data.status]
              [] OTHER ->
                   [vcs |-> data.vcs,
                    status |-> IF NameContains(filename, "completed")
                               THEN "completed" ELSE "in_progress"]

\* (vcs_list, status) of SearchPageHelper.load_existing_page_data
load_existing_page_data(exists, fs, order, page_num) ==
    IF ~exists THEN NoPageData
    ELSE IF \A i \in DOMAIN order : ~IsPageFile(order[i], page_num) THEN NoPageData
    ELSE LET filename == FirstPageFile(order, page_num)
             page_data == fs[filename]
         IN CASE page_data.format \in {"corrupt", "unreadable"} -> NoPageData
              [] page_data.format = "enhanced" ->
                   [vcs |-> page_data.vcs, status |-> page_data.status]
              [] OTHER ->
                   [vcs |-> page_data.vcs,
                    status |-> IF NameContains(filename, "completed")
                               THEN "completed" ELSE "in_progress"]

----------------------------------------------------------------------------
(* Baseline Resume Planner: state_manager.py *)

\* the files whose JSON parses to a dict holding "metadata"
HasMetadata(fs, n) == fs[n].format = "enhanced"

\* completed_pages after the scan
CompletedPagesOnDisk(fs) ==
    {fs[n].page_number : n \in {m \in DOMAIN fs : HasMetadata(fs, m) /\ fs[m].status = "completed"}}

\* in_progress_page after the scan: the page of the last in-progress file listed, 0 for None
InProgressPageScanned(fs, order) ==
    LET idx == {i \in DOMAIN order :
                    HasMetadata(fs, order[i]) /\ fs[order[i]].status = "in_progress"}
    IN IF idx = {} THEN 0
       ELSE fs[order[CHOOSE i \in idx : \A j \in idx : j <= i]].page_number

\* the scan meets a file whose reading raises an exception the inner handler does not
\* catch: the outer handler returns 1
RaisesInScan(fs) == \E n \in DOMAIN fs : fs[n].format = "unreadable"

SetMax(S) == CHOOSE x \in S : \A y \in S : y <= x

load_previous_state_CompletedFirst(exists, fs, order) ==
    LET scanned_completed == IF exists THEN CompletedPagesOnDisk(fs) ELSE {}
        in_progress_page == IF exists THEN InProgressPageScanned(fs, order) ELSE 0
    IN IF exists /\ RaisesInScan(fs) THEN 1
       ELSE IF scanned_completed # {} THEN SetMax(scanned_completed) + 1
       ELSE IF in_progress_page # 0 THEN in_progress_page
       ELSE 1

\* target_page of load_previous_state
load_previous_state(exists, fs, order) ==
    LET scanned_completed == IF exists THEN CompletedPagesOnDisk(fs) ELSE {}
        in_progress_page == IF exists THEN InProgressPageScanned(fs, order) ELSE 0
    IN IF exists /\ RaisesInScan(fs) THEN 1
       ELSE IF in_progress_page # 0 THEN in_progress_page
       ELSE IF scanned_completed # {} THEN SetMax(scanned_completed) + 1
       ELSE 1

----------------------------------------------------------------------------
(* Inputs of the Work Selector specifications *)

MaxLinks == 3
MaxExisting == 2

FieldVals == {PyNone, EmptyStr, NotApplicable}
InvestmentVals == {PyNone, EmptyList, OneInvestment}
StatusVals == {PyNone, <<"completed">>, <<"failed">>}

ClassifyInputs ==
    {VcRecord(TRUE, IdA, SomeText, fo, ov, ex, st, inv, status, PyNone, 0) :
        fo \in FieldVals, ov \in FieldVals, ex \in FieldVals, st \in FieldVals,
        inv \in InvestmentVals, status \in StatusVals}
    \cup {NonDictEntry}

SelUrls == {UrlA, UrlB, UrlC, UrlASlash}
SelVcIds == {IdA, IdB, EmptyStr, PyNone}

SelRecords ==
    {ScrapedRecord(id) : id \in SelVcIds}
    \cup {NoInvestmentsRecord(id) : id \in SelVcIds}
    \cup {ValidationRecord(id, "inactive") : id \in SelVcIds}
    \cup {NonDictEntry}

\* unique_links = list(set(investor_links)): no duplicates, any order
LinkLists == {s \in SeqsUpTo(SelUrls, MaxLinks) : NoDuplicates(s)}
ExistingLists == SeqsUpTo(SelRecords, MaxExisting)

ClsInit == cls_rec \in ClassifyInputs /\ cls_out = "none"
ClsIdle == cls_rec = NonDictEntry /\ cls_out = "none"

SelInit ==
    /\ sel_links \in LinkLists
    /\ sel_existing \in ExistingLists
    /\ sel_out = << >>
    /\ sel_pc = "ready"
SelIdle ==
    /\ sel_links = << >>
    /\ sel_existing = << >>
    /\ sel_out = << >>
    /\ sel_pc = "ready"

DetermineVcStatus ==
    /\ cls_out = "none"
    /\ cls_out' = determine_vc_status(cls_rec)
    /\ UNCHANGED cls_rec

FilterUnscrapedVcs ==
    /\ sel_pc = "ready"
    /\ sel_out' = filter_unscraped_vcs(sel_links, sel_existing)
    /\ sel_pc' = "done"
    /\ UNCHANGED <<sel_links, sel_existing>>

----------------------------------------------------------------------------
(* The results directory: saves, loads and the baseline planner *)

MaxPage == 2
MaxClock == 1
MaxFiles == 2

Pages == 1..MaxPage
SnapshotStatuses == {"in_progress", "completed"}

\* the item lists handed to save_page_with_enhanced_metadata
SaveLists ==
    {<<ScrapedRecord(IdA)>>, <<ScrapedRecord(IdA), NoInvestmentsRecord(IdB)>>}

NoReturn == [op |-> "none", page |-> 0, vcs |-> << >>, status |-> ""]
NoSave == [page |-> 0, vcs |-> << >>, status |-> ""]
NoResumeCall ==
    [called |-> FALSE, enable_experimental |-> FALSE, imported |-> FALSE, fault |-> "none"]

\* A StateManager may be given a scraper whose results_dir does not exist; SNCVCScraper's
\* setup_directories creates it
DiskInit ==
    /\ results_exists \in BOOLEAN
    /\ files = << >>
    /\ clock = 0
    /\ ret = NoReturn
    /\ last_save = NoSave
    /\ resume_call = NoResumeCall

DiskIdle ==
    /\ results_exists = TRUE
    /\ files = << >>
    /\ clock = 0
    /\ ret = NoReturn
    /\ last_save = NoSave
    /\ resume_call = NoResumeCall

\* a second passes
Tick ==
    /\ clock < MaxClock
    /\ clock' = clock + 1
    /\ UNCHANGED <<results_exists, files, ret, last_save, resume_call>>

SavePageOf(lists) ==
    \E page_num \in Pages, vcs \in lists, status \in SnapshotStatuses :
        /\ files' = save_page_with_enhanced_metadata(files, page_num, vcs, status, clock)
        /\ Cardinality(DOMAIN files') <= MaxFiles
        /\ results_exists' = TRUE
        /\ ret' = [op |-> "save", page |-> page_num, vcs |-> << >>, status |-> ""]
        /\ last_save' = [page |-> page_num, vcs |-> vcs, status |-> status]
        /\ UNCHANGED <<clock, resume_call>>

SavePage == SavePageOf(SaveLists)

LoadPreviousState ==
    \E order \in Listings(files) :
        LET page == load_previous_state(results_exists, files, order)
        IN /\ ret' = [op |-> "load_previous_state", page |-> page, vcs |-> << >>,
                      status |-> ""]
           /\ UNCHANGED <<results_exists, files, clock, last_save, resume_call>>

LoadPage ==
    \E page_num \in Pages, order \in Listings(files) :
        LET got == load_page_with_enhanced_metadata(results_exists, files, order, page_num)
        IN /\ ret' = [op |-> "load_page", page |-> page_num, vcs |-> got.vcs,
                      status |-> got.status]
           /\ UNCHANGED <<results_exists, files, clock, last_save, resume_call>>

LoadExistingPageData ==
    \E page_num \in Pages, order \in Listings(files) :
        LET got == load_existing_page_data(results_exists, files, order, page_num)
        IN /\ ret' = [op |-> "load_existing", page |-> page_num, vcs |-> got.vcs,
                      status |-> got.status]
           /\ UNCHANGED <<results_exists, files, clock, last_save, resume_call>>

----------------------------------------------------------------------------
(* Saves on units whose numbers share leading digits *)

PrefixPages == {1, 10}
AllSnapshotStatuses == {"in_progress", "partial", "completed"}

SavePageAnyStatus ==
    \E page_num \in PrefixPages, vcs \in SaveLists, status \in AllSnapshotStatuses :
        /\ files' = save_page_with_enhanced_metadata(files, page_num, vcs, status, clock)
        /\ Cardinality(DOMAIN files') <= MaxFiles
        /\ results_exists' = TRUE
        /\ ret' = [op |-> "save", page |-> page_num, vcs |-> << >>, status |-> ""]
        /\ last_save' = [page |-> page_num, vcs |-> vcs, status |-> status]
        /\ UNCHANGED <<clock, resume_call>>

----------------------------------------------------------------------------
(* A results directory that also holds files the scraper did not write *)

FoundNames == {FileName(page_num, status, 1, 0) : page_num \in Pages, status \in SnapshotStatuses}

FoundContents(filename) ==
    {EnhancedContent(filename.page, filename.status, <<ScrapedRecord(IdA)>>),
     LegacyContent(<<ScrapedRecord(IdA)>>), CorruptContent, UnreadableContent}

FoundDirectories ==
    UNION {{fs \in [S -> UNION {FoundContents(n) : n \in FoundNames}] :
                \A n \in S : fs[n] \in FoundContents(n)} :
           S \in {T \in SUBSET FoundNames : Cardinality(T) <= MaxFiles}}

FoundInit ==
    /\ results_exists \in BOOLEAN
    /\ files \in FoundDirectories
    /\ ~results_exists => files = << >>
    /\ clock = 0
    /\ ret = NoReturn
    /\ last_save = NoSave
    /\ resume_call = NoResumeCall

----------------------------------------------------------------------------
(* The enhanced resume planner: enhanced_resume_detector.py, state_manager.py *)

\* the steps of the detection in which the listing of the results directory may raise
DetectionSteps ==
    {"_find_last_in_progress_page", "_find_next_available_page", "_page_needs_work"}

\* the page numbers re.search(r'page_(\d+)_', filename) gives for the .json names that
\* contain word
PagesNamed(fs, word) ==
    {n.page : n \in {m \in DOMAIN fs :
        NameContains(m, word) /\ NameText(m)[Len(NameText(m))] = ".json"}}

\* 0 stands for None; an error inside is caught there and gives None
_find_last_in_progress_page(exists, fs, raises) ==
    IF raises \/ ~exists \/ PagesNamed(fs, "in_progress") = {} THEN 0
    ELSE SetMax(PagesNamed(fs, "in_progress"))

\* an error inside is caught there and gives 1
_find_next_available_page(exists, fs, raises) ==
    IF raises \/ ~exists \/ PagesNamed(fs, "completed") = {} THEN 1
    ELSE SetMax(PagesNamed(fs, "completed")) + 1

\* the first file of the unit that os.listdir gives and whose name says completed or
\* in_progress decides; an error inside is caught there and gives True
_page_needs_work(exists, fs, order, page_num, raises) ==
    IF raises \/ ~exists THEN TRUE
    ELSE LET idx == {i \in DOMAIN order :
                        /\ IsPageFile(order[i], page_num)
                        /\ \/ NameContains(order[i], "completed")
                           \/ NameContains(order[i], "in_progress")}
         IN IF idx = {} THEN TRUE
            ELSE ~NameContains(order[CHOOSE i \in idx : \A j \in idx : i <= j], "completed")

_determine_optimal_resume_point(exists, fs, order, last_in_progress, verification_page, raises) ==
    IF _page_needs_work(exists, fs, order, verification_page, raises)
    THEN verification_page
    ELSE last_in_progress

\* 0 stands for None; fault names the step that raises, "none" when none does
detect_resume_point_experimental(enable_experimental, exists, fs, order, fault) ==
    IF ~enable_experimental THEN 0
    ELSE LET last_in_progress_page ==
                 _find_last_in_progress_page(exists, fs,
                                             fault = "_find_last_in_progress_page")
             verification_page ==
                 IF last_in_progress_page - 1 > 1 THEN last_in_progress_page - 1 ELSE 1
         IN IF last_in_progress_page = 0
            THEN _find_next_available_page(exists, fs, fault = "_find_next_available_page")
            ELSE _determine_optimal_resume_point(exists, fs, order, last_in_progress_page,
                                                 verification_page,
                                                 fault = "_page_needs_work")

\* the variant that runs the detection whatever the flag says
load_previous_state_experimental_AlwaysEnhanced(enable_experimental, imported, exists, fs, order_baseline, order_detect, fault) ==
    LET experimental_resume_point ==
            detect_resume_point_experimental(TRUE, exists, fs, order_detect, fault)
    IN IF experimental_resume_point # 0 THEN experimental_resume_point
       ELSE load_previous_state(exists, fs, order_baseline)

\* the page load_previous_state_experimental returns and stores in scraper.target_page;
\* imported is FALSE when the import of EnhancedResumeDetector failed
load_previous_state_experimental(enable_experimental, imported, exists, fs, order_baseline, order_detect, fault) ==
    IF ~enable_experimental \/ ~imported
    THEN load_previous_state(exists, fs, order_baseline)
    ELSE LET experimental_resume_point ==
                 detect_resume_point_experimental(TRUE, exists, fs, order_detect, fault)
         IN IF experimental_resume_point # 0 THEN experimental_resume_point
            ELSE load_previous_state(exists, fs, order_baseline)

\* the results directories a session may find when it plans its resume: per file a
\* snapshot of scraped items, a snapshot with an item that lacks its investments, or
\* bytes that cannot be read
ResumeContents(filename) ==
    {EnhancedContent(filename.page, filename.status, <<ScrapedRecord(IdA)>>),
     EnhancedContent(filename.page, filename.status, <<NoInvestmentsRecord(IdB)>>),
     UnreadableContent}

ResumeDirectories ==
    UNION {{fs \in [S -> UNION {ResumeContents(n) : n \in FoundNames}] :
                \A n \in S : fs[n] \in ResumeContents(n)} :
           S \in {T \in SUBSET FoundNames : Cardinality(T) <= MaxFiles}}

ResumeInit ==
    /\ results_exists \in BOOLEAN
    /\ files \in ResumeDirectories
    /\ ~results_exists => files = << >>
    /\ clock = 0
    /\ ret = NoReturn
    /\ last_save = NoSave
    /\ resume_call = NoResumeCall

\* the planner is called once, when a session starts
LoadPreviousStateExperimental ==
    \E enable_experimental \in BOOLEAN, imported \in BOOLEAN,
       fault \in {"none"} \cup DetectionSteps,
       order_baseline \in Listings(files), order_detect \in Listings(files) :
        /\ ~resume_call.called
        /\ ret' = [op |-> "load_previous_state_experimental",
                   page |-> load_previous_state_experimental(
                                enable_experimental, imported, results_exists, files,
                                order_baseline, order_detect, fault),
                   vcs |-> << >>, status |-> ""]
        /\ resume_call' = [called |-> TRUE, enable_experimental |-> enable_experimental,
                           imported |-> imported, fault |-> fault]
        /\ UNCHANGED <<results_exists, files, clock, last_save>>

\* detect_resume_point_experimental() on an EnhancedResumeDetector built with the flag
\* (the planner is called once, when a session starts)
DetectResumePointExperimental ==
    \E enable_experimental \in BOOLEAN, fault \in {"none"} \cup DetectionSteps,
       order \in Listings(files) :
        /\ ~resume_call.called
        /\ ret' = [op |-> "detect_resume_point_experimental",
                   page |-> detect_resume_point_experimental(
                                enable_experimental, results_exists, files, order, fault),
                   vcs |-> << >>, status |-> ""]
        /\ resume_call' = [called |-> TRUE, enable_experimental |-> enable_experimental,
                           imported |-> TRUE, fault |-> fault]
        /\ UNCHANGED <<results_exists, files, clock, last_save>>

----------------------------------------------------------------------------
(* In-memory tracker of one SNCVCScraper: snc_scraper_service.py *)

MaxAttempts == 1

TrackIds == {IdA, IdB}
UrlOfId(vc_id) == <<"p", "/">> \o vc_id

\* the status words the item lifecycle knows besides the default "pending"
SetStatuses == {"in_progress", "completed", "failed", "inactive", "limited_info"}

\* self.vc_status after _set_vc_status(vc_id, status, url, discovered_on_page); a
\* discovered_on_page of 0 stands for None (pages count from 1).  The first_seen and
\* last_updated stamps are left out: no code reads them.
_set_vc_status(vs, cur_page, vc_id, status, url, discovered_on_page) ==
    IF vc_id \notin DOMAIN vs
    THEN (vc_id :> [status |-> status,
                    url |-> IF Truthy(url) THEN url ELSE EmptyStr,
                    attempts |-> 0,
                    discovered_on_page |-> IF discovered_on_page # 0
                                           THEN discovered_on_page ELSE cur_page]) @@ vs
    ELSE [vs EXCEPT ![vc_id] =
            [@ EXCEPT !.status = status,
                      !.attempts = IF status = "in_progress" THEN @ + 1 ELSE @,
                      !.discovered_on_page = IF discovered_on_page # 0
                                             THEN discovered_on_page ELSE @]]

_get_vc_status(vs, vc_id) ==
    IF vc_id \in DOMAIN vs THEN vs[vc_id].status ELSE "pending"

\* self.completed_pages after _update_page_completion(page_num)
_update_page_completion(vs, cp, page_num) ==
    LET page_vc_ids == {vc_id \in DOMAIN vs : vs[vc_id].discovered_on_page = page_num}
        completed_count ==
            Cardinality({vc_id \in page_vc_ids : _get_vc_status(vs, vc_id) = "completed"})
    IN IF page_vc_ids = {} THEN cp
       ELSE IF completed_count = Cardinality(page_vc_ids) /\ Cardinality(page_vc_ids) > 0
            THEN cp \cup {page_num}
       ELSE IF page_num \in cp THEN cp \ {page_num}
       ELSE cp

\* page_data of save_page_progress
ProgressContent(page_num, page_results) ==
    [actual_page_number |-> page_num, total_vcs_on_page |-> Len(page_results),
     status |-> "completed", vcs |-> page_results]

\* the progress directory after save_page_progress(page_results, page_num)
save_page_progress(pf, page_results, page_num, timestamp) ==
    (FileName(page_num, "completed", Len(page_results), timestamp)
        :> ProgressContent(page_num, page_results)) @@ pf

TrkInit ==
    /\ vc_status = << >>
    /\ completed_pages = {}
    /\ current_page = 1
    /\ progress_files = << >>
    /\ trk_last = 0

TrkIdle ==
    /\ vc_status = << >>
    /\ completed_pages = {}
    /\ current_page = 1
    /\ progress_files = << >>
    /\ trk_last = 0

SetVcStatus ==
    \E vc_id \in TrackIds, status \in SetStatuses, url \in {PyNone, UrlA},
       discovered_on_page \in {0} \cup Pages :
        /\ (vc_id \in DOMAIN vc_status /\ status = "in_progress")
              => vc_status[vc_id].attempts < MaxAttempts
        /\ vc_status' = _set_vc_status(vc_status, current_page, vc_id, status,
                                       IF url = PyNone THEN url ELSE UrlOfId(vc_id),
                                       discovered_on_page)
        /\ trk_last' = 0
        /\ UNCHANGED <<completed_pages, current_page, progress_files>>

UpdatePageCompletion ==
    \E page_num \in Pages :
        /\ completed_pages' = _update_page_completion(vc_status, completed_pages, page_num)
        /\ trk_last' = page_num
        /\ UNCHANGED <<vc_status, current_page, progress_files>>

\* save_page_progress writes the progress file and adds the page to completed_pages
SavePageProgress ==
    \E page_num \in Pages :
        /\ progress_files' = save_page_progress(progress_files, <<ScrapedRecord(IdA)>>,
                                                page_num, clock)
        /\ completed_pages' = completed_pages \cup {page_num}
        /\ trk_last' = 0
        /\ UNCHANGED <<vc_status, current_page>>

\* scrape_pages: self.scraper.current_page = page_num
SetCurrentPage ==
    \E page_num \in Pages :
        /\ current_page' = page_num
        /\ trk_last' = 0
        /\ UNCHANGED <<vc_status, completed_pages, progress_files>>

----------------------------------------------------------------------------
(* Page flow: run_single_page_session, page_orchestrator.py, vc_orchestrator.py *)

\* the investor links the search result pages of the site show
SiteLinks(page_num) ==
    CASE page_num = 1 -> {UrlA, UrlB}
      [] page_num = 2 -> {UrlC}
      [] OTHER -> {}
SiteUrls == {UrlA, UrlB, UrlC}

\* list(set(investor_links)): the links in any order
Orderings(S) ==
    {order \in [1..Cardinality(S) -> S] :
        \A i, j \in DOMAIN order : i # j => order[i] # order[j]}

\* what the site shows for one investor page and how the attempt ends
SiteAnswers == {"scraped", "no_investments", "inactive", "limited_info", "no_overview",
                "rate_limit", "timeout"}

\* vcs_to_scrape of extract_vc_links_from_search_page; unique_links is << >> when the
\* page shows no link or both lookups raise
extract_vc_links_from_search_page(exists, fs, order, page_num, unique_links) ==
    filter_unscraped_vcs(unique_links, load_existing_page_data(exists, fs, order, page_num).vcs)

\* process_single_page up to the call of scrape_vcs_in_parallel_tabs: pc is "idle" when it
\* returned before scraping
process_single_page_load(exists, fs, order_load, order_extract, page_num, unique_links, now) ==
    LET loaded == load_page_with_enhanced_metadata(exists, fs, order_load, page_num)
        all_vc_links ==
            extract_vc_links_from_search_page(exists, fs, order_extract, page_num, unique_links)
        returned == [pc |-> "idle", queue |-> << >>, existing |-> << >>, fs |-> fs]
    IN IF TruthyList(loaded.vcs)
       THEN IF loaded.status = "completed" THEN returned
            ELSE IF all_vc_links = << >> THEN returned
            ELSE LET remaining == filter_unscraped_vcs(all_vc_links, loaded.vcs)
                 IN IF remaining = << >>
                    THEN [returned EXCEPT !.fs =
                            save_page_with_enhanced_metadata(fs, page_num, loaded.vcs,
                                                             "completed", now)]
                    ELSE [pc |-> "scraping", queue |-> remaining,
                          existing |-> loaded.vcs, fs |-> fs]
       ELSE IF all_vc_links = << >> THEN returned
            ELSE [pc |-> "scraping", queue |-> all_vc_links, existing |-> << >>, fs |-> fs]

\* what scrape_investor_complete_with_investments(url) returns when the site answers
\* answer: the one-element list of the record, the empty list for None
scrape_result(vs, url, answer, now) ==
    LET vc_id == UrlVcId(url)
    IN IF _get_vc_status(vs, vc_id) = "completed" THEN << >>
       ELSE CASE answer \in {"inactive", "limited_info"} -> <<ValidationRecord(vc_id, answer)>>
              [] answer = "scraped" -> <<ScrapedRecordAt(vc_id, now)>>
              [] answer = "no_investments" -> <<NoInvestmentsRecordAt(vc_id, now)>>
              [] OTHER -> << >>

\* self.scraper.vc_status after scrape_investor_complete_with_investments(url)
scrape_status(vs, cur_page, url, answer) ==
    LET vc_id == UrlVcId(url)
        started == _set_vc_status(vs, cur_page, vc_id, "in_progress", url, 0)
    IN IF _get_vc_status(vs, vc_id) = "completed" THEN vs
       ELSE CASE answer \in {"rate_limit", "no_overview"} ->
                    _set_vc_status(started, cur_page, vc_id, "failed", PyNone, 0)
              [] answer \in {"scraped", "no_investments"} ->
                    _set_vc_status(started, cur_page, vc_id, "completed", url, 0)
              [] OTHER -> started

\* how the claims name the end of an attempt
OutcomeOf(answer) ==
    CASE answer \in {"scraped", "no_investments"} -> "completed"
      [] answer \in {"inactive", "limited_info"} -> answer
      [] OTHER -> "failed"

MaxSessions == 2

\* number counts the run_single_page_session calls made so far
NoSession == [number |-> 0, interrupted |-> FALSE, state_saved |-> FALSE,
              vc_status |-> << >>, ended |-> "none"]
NewSession(number) == [NoSession EXCEPT !.number = number, !.ended = "running"]

RunInit ==
    /\ run_pc = "idle"
    /\ vcs_to_scrape = << >>
    /\ existing_page_vcs = << >>
    /\ all_results = << >>
    /\ rate_limit_detected = FALSE
    /\ outcome = [u \in SiteUrls |-> "none"]
    /\ session = NoSession

RunIdle ==
    /\ run_pc = "idle"
    /\ vcs_to_scrape = << >>
    /\ existing_page_vcs = << >>
    /\ all_results = << >>
    /\ rate_limit_detected = FALSE
    /\ outcome = [u \in SiteUrls |-> "none"]
    /\ session = NoSession

\* run_single_page_session: a new SNCVCScraper, load_previous_state, scrape_pages for
\* the target page up to the start of the batch
StartSession ==
    /\ run_pc = "idle"
    /\ session.number < MaxSessions
    /\ \E order_plan \in Listings(files), order_load \in Listings(files),
          order_extract \in Listings(files), navigated \in BOOLEAN :
         LET target_page == load_previous_state(results_exists, files, order_plan)
         IN \E unique_links \in Orderings(SiteLinks(target_page)) \cup {<< >>} :
              LET begun == IF navigated
                           THEN process_single_page_load(results_exists, files, order_load,
                                    order_extract, target_page, unique_links, clock)
                           ELSE [pc |-> "idle", queue |-> << >>, existing |-> << >>,
                                 fs |-> files]
              IN /\ vc_status' = << >>
                 /\ completed_pages' = {}
                 /\ current_page' = target_page
                 /\ rate_limit_detected' = FALSE
                 /\ run_pc' = begun.pc
                 /\ vcs_to_scrape' = begun.queue
                 /\ existing_page_vcs' = begun.existing
                 /\ all_results' = << >>
                 /\ files' = begun.fs
                 /\ trk_last' = 0
                 /\ session' = [NewSession(session.number + 1) EXCEPT !.ended =
                                    IF begun.pc = "idle" THEN "returned" ELSE "running"]
                 /\ UNCHANGED <<results_exists, clock, ret, last_save, resume_call, progress_files, outcome>>

\* one pass of the tab loop of scrape_vcs_in_parallel_tabs (a batch holds up to max_tabs =
\* 7 URLs, so the pages of SiteLinks are one batch and the break on a rate limit ends it)
ScrapeTab ==
    /\ run_pc = "scraping"
    /\ vcs_to_scrape # << >>
    /\ \E answer \in SiteAnswers :
         LET url == Head(vcs_to_scrape)
             complete_data == IF answer = "timeout" THEN << >>
                              ELSE scrape_result(vc_status, url, answer, clock)
             limited == answer = "rate_limit"
                        /\ _get_vc_status(vc_status, UrlVcId(url)) # "completed"
         IN /\ vc_status' = IF answer = "timeout" THEN vc_status
                            ELSE scrape_status(vc_status, current_page, url, answer)
            /\ rate_limit_detected' = (rate_limit_detected \/ limited)
            /\ IF complete_data # << >>
               THEN /\ all_results' = all_results \o complete_data
                    /\ progress_files' = save_page_progress(progress_files, all_results',
                                                            current_page, clock)
                    /\ completed_pages' = completed_pages \cup {current_page}
               ELSE UNCHANGED <<all_results, progress_files, completed_pages>>
            /\ vcs_to_scrape' = IF limited THEN << >> ELSE Tail(vcs_to_scrape)
            /\ outcome' = [outcome EXCEPT ![url] =
                              IF answer # "timeout"
                                 /\ _get_vc_status(vc_status, UrlVcId(url)) = "completed"
                              THEN @ ELSE OutcomeOf(answer)]
            /\ trk_last' = 0
            /\ UNCHANGED <<run_pc, existing_page_vcs, current_page, results_exists, files, clock,
                           ret, last_save, resume_call, session>>

\* steps 5 and 6 of process_single_page; scrape_pages then stops at end_page
FinishPage ==
    /\ run_pc = "scraping"
    /\ vcs_to_scrape = << >>
    /\ LET all_page_results == existing_page_vcs \o all_results
       IN /\ files' = save_page_with_enhanced_metadata(files, current_page,
                                                       all_page_results, "completed", clock)
          /\ progress_files' = save_page_progress(progress_files, all_page_results,
                                                  current_page, clock)
    /\ completed_pages' = completed_pages \cup {current_page}
    /\ run_pc' = "idle"
    /\ trk_last' = 0
    /\ session' = [session EXCEPT !.ended = "returned"]
    /\ UNCHANGED <<vc_status, current_page, results_exists, clock, ret, last_save, resume_call,
                   vcs_to_scrape, existing_page_vcs, all_results, rate_limit_detected, outcome>>

\* the process is killed while the batch is being scraped
Crash ==
    /\ run_pc = "scraping"
    /\ run_pc' = "idle"
    /\ session' = [session EXCEPT !.ended = "killed"]
    /\ UNCHANGED <<diskVars, trkVars, vcs_to_scrape, existing_page_vcs, all_results,
                   rate_limit_detected, outcome>>

\* the vc_status entry of the state file save_current_state writes
save_current_state(vs) == vs

\* KeyboardInterrupt raised inside the try block of run_single_page_session where no
\* inner handler catches it: the handler saves the state, finally closes the session
InterruptCaught ==
    /\ run_pc = "scraping"
    /\ run_pc' = "idle"
    /\ session' = [session EXCEPT !.interrupted = TRUE, !.state_saved = TRUE,
                                  !.vc_status = save_current_state(vc_status),
                                  !.ended = "returned"]
    /\ UNCHANGED <<diskVars, trkVars, vcs_to_scrape, existing_page_vcs, all_results,
                   rate_limit_detected, outcome>>

\* KeyboardInterrupt raised while extract_data_safely looks up a field of the item being
\* scraped: its bare "except: continue" catches it and the lookup moves to the next
\* xpath, the session goes on
InterruptSwallowed ==
    /\ run_pc = "scraping"
    /\ vcs_to_scrape # << >>
    /\ ~session.interrupted
    /\ session' = [session EXCEPT !.interrupted = TRUE]
    /\ UNCHANGED <<diskVars, trkVars, run_pc, vcs_to_scrape, existing_page_vcs, all_results,
                   rate_limit_detected, outcome>>

\* KeyboardInterrupt raised after SNCVCScraper(...) returned and before the try block is
\* entered (the three helper constructors): it leaves run_single_page_session
InterruptSetup ==
    /\ run_pc = "idle"
    /\ session.number < MaxSessions
    /\ vc_status' = << >>
    /\ completed_pages' = {}
    /\ current_page' = 1
    /\ rate_limit_detected' = FALSE
    /\ trk_last' = 0
    /\ session' = [NewSession(session.number + 1) EXCEPT !.interrupted = TRUE,
                                                         !.ended = "raised"]
    /\ UNCHANGED <<diskVars, progress_files, run_pc, vcs_to_scrape, existing_page_vcs,
                   all_results, outcome>>

----------------------------------------------------------------------------
(* Cache Index: vc_cache_manager.py *)

CacheSlugs == {IdA, IdB}
DataHashes == {PyNone, <<"h">>}

\* self.cache_data after add_vc(slug, name, url, first_seen_page); 0 stands for a
\* first_seen_page of None, NoTime for a last_scraped of None
add_vc(cd, slug, name, url, first_seen_page, now) ==
    (slug :> [name |-> name, url |-> url, slug |-> slug,
              first_seen_page |-> first_seen_page,
              scraping_status |-> "pending",
              first_discovered |-> now, last_updated |-> now, last_scraped |-> NoTime,
              scrape_attempts |-> 0, data_hash |-> PyNone]) @@ cd

get_vc_status(cd, slug) ==
    IF slug \in DOMAIN cd THEN cd[slug].scraping_status ELSE "None"

mark_vc_completed(cd, slug, data_hash, now) ==
    IF slug \in DOMAIN cd
    THEN [cd EXCEPT ![slug] =
            [@ EXCEPT !.scraping_status = "completed", !.last_scraped = now,
                      !.last_updated = now,
                      !.data_hash = IF Truthy(data_hash) THEN data_hash ELSE @]]
    ELSE cd

mark_vc_failed(cd, slug, now) ==
    IF slug \in DOMAIN cd
    THEN [cd EXCEPT ![slug] =
            [@ EXCEPT !.scraping_status = "failed", !.last_updated = now,
                      !.scrape_attempts = @ + 1]]
    ELSE cd

is_vc_completed(cd, slug) == get_vc_status(cd, slug) = "completed"

\* the default path (an absolute path below the package directory) and a file name
\* given without a directory
DefaultCachePath == <<"snc", "vc_cache.json">>
BareCachePath == <<"vc_cache.json">>

\* os.path.dirname
dirname(path) == SubSeq(path, 1, Len(path) - 1)

\* _save_cache returns False without writing when os.makedirs raises, which it does
\* on the empty directory name of a bare file name
_save_cache_Succeeds(path) == dirname(path) # << >>

\* the file after _save_cache
_save_cache(path, cd, cf) ==
    IF _save_cache_Succeeds(path)
    THEN [exists |-> TRUE, kind |-> "object", data |-> cd]
    ELSE cf

\* self.cache_data after _load_cache: the JSON object of the file, {} when the file is
\* missing or json.load raises; a file holding another JSON value (a list, null) is
\* loaded as it is and LoadsDict is FALSE
_load_cache(cf) == IF cf.exists /\ cf.kind = "object" THEN cf.data ELSE << >>
LoadsDict(cf) == ~(cf.exists /\ cf.kind = "other")

MissingCacheFile == [exists |-> FALSE, kind |-> "object", data |-> << >>]
CorruptCacheFile == [exists |-> TRUE, kind |-> "corrupt", data |-> << >>]
OtherJsonCacheFile == [exists |-> TRUE, kind |-> "other", data |-> << >>]

NoCacheCall == [op |-> "none", slug |-> << >>, value |-> "none"]

\* a VCCacheManager constructed on the cache file found
CacheInit ==
    /\ cache_file \in {MissingCacheFile, CorruptCacheFile, OtherJsonCacheFile}
    /\ cache_file_path \in {DefaultCachePath, BareCachePath}
    /\ cache_data = _load_cache(cache_file)
    /\ cache_is_dict = LoadsDict(cache_file)
    /\ cache_ret = NoCacheCall

CacheIdle ==
    /\ cache_data = << >>
    /\ cache_file_path = DefaultCachePath
    /\ cache_file = MissingCacheFile
    /\ cache_is_dict = TRUE
    /\ cache_ret = NoCacheCall

\* on a cache_data that is no dict the item assignment raises and add_vc returns False
AddVc ==
    \E slug \in CacheSlugs, first_seen_page \in {0} \cup Pages :
        /\ cache_data' = IF cache_is_dict
                         THEN add_vc(cache_data, slug, SomeText, UrlOfId(slug),
                                     first_seen_page, clock)
                         ELSE cache_data
        /\ cache_file' = IF cache_is_dict
                         THEN _save_cache(cache_file_path, cache_data', cache_file)
                         ELSE cache_file
        /\ cache_ret' = [op |-> "add_vc", slug |-> slug,
                         value |-> IF cache_is_dict /\ _save_cache_Succeeds(cache_file_path)
                                   THEN "True" ELSE "False"]
        /\ UNCHANGED <<cache_is_dict, cache_file_path>>

MarkVcCompleted ==
    \E slug \in CacheSlugs, data_hash \in DataHashes :
        /\ cache_data' = mark_vc_completed(cache_data, slug, data_hash, clock)
        /\ cache_file' = IF slug \in DOMAIN cache_data
                         THEN _save_cache(cache_file_path, cache_data', cache_file)
                         ELSE cache_file
        /\ cache_ret' = [op |-> "mark_vc_completed", slug |-> slug,
                         value |-> IF slug \in DOMAIN cache_data
                                      /\ _save_cache_Succeeds(cache_file_path)
                                   THEN "True" ELSE "False"]
        /\ UNCHANGED <<cache_is_dict, cache_file_path>>

MarkVcFailed ==
    \E slug \in CacheSlugs :
        /\ slug \in DOMAIN cache_data => cache_data[slug].scrape_attempts < MaxAttempts
        /\ cache_data' = mark_vc_failed(cache_data, slug, clock)
        /\ cache_file' = IF slug \in DOMAIN cache_data
                         THEN _save_cache(cache_file_path, cache_data', cache_file)
                         ELSE cache_file
        /\ cache_ret' = [op |-> "mark_vc_failed", slug |-> slug,
                         value |-> IF slug \in DOMAIN cache_data
                                      /\ _save_cache_Succeeds(cache_file_path)
                                   THEN "True" ELSE "False"]
        /\ UNCHANGED <<cache_is_dict, cache_file_path>>

\* is_vc_completed(slug): on a cache_data that is no dict, .get raises AttributeError
IsVcCompleted ==
    \E slug \in CacheSlugs :
        /\ cache_ret' = [op |-> "is_vc_completed", slug |-> slug,
                         value |-> IF ~cache_is_dict THEN "raised"
                                   ELSE IF is_vc_completed(cache_data, slug) THEN "True"
                                   ELSE "False"]
        /\ UNCHANGED <<cache_data, cache_file, cache_file_path, cache_is_dict>>

\* a new VCCacheManager on the same cache file
OpenCache ==
    /\ cache_data' = _load_cache(cache_file)
    /\ cache_is_dict' = LoadsDict(cache_file)
    /\ cache_ret' = [NoCacheCall EXCEPT !.op = "open"]
    /\ UNCHANGED <<cache_file, cache_file_path>>

----------------------------------------------------------------------------
(* Migration from snapshots into the Cache Index: populate_cache_from_results.py *)

\* the code point of a token's first character, which decides the comparison of two
\* file names at the first position where they differ ("partial" follows "page")
TokenRank(token) ==
    CASE token = ".json" -> 46
      [] token \in SeqToSet(DigitChars) ->
            47 + (CHOOSE i \in DOMAIN DigitChars : DigitChars[i] = token)
      [] token = "_" -> 95
      [] token = "completed" -> 99
      [] token = "in_progress" -> 105
      [] token = "page" -> 112
      [] token = "partial" -> 113
      [] token = "vcs" -> 118

\* str < str
TextLess(a, b) ==
    \E k \in 1..Len(b) :
        /\ \A i \in 1..(k - 1) : i <= Len(a) /\ a[i] = b[i]
        /\ k > Len(a) \/ TokenRank(a[k]) < TokenRank(b[k])

\* sorted(os.listdir(results_dir))
SortedListing(fs) ==
    CHOOSE order \in Listings(fs) :
        \A i, j \in DOMAIN order : i < j => TextLess(NameText(order[i]), NameText(order[j]))

\* re.search(r'page_(\d+)_completed', filename): 0 stands for None
extract_page_number_from_filename(filename) ==
    IF filename.status = "completed" THEN filename.page ELSE 0

\* the records extract_vc_data_from_results takes from a loaded file: the dicts that
\* have a vc_id, of a bare list or of the "vcs" list of an object
extract_vc_data_from_results(content) ==
    IF content.format \in {"enhanced", "list"}
    THEN FilterSeq(content.vcs,
                   {vc \in SeqToSet(content.vcs) : vc.is_dict /\ vc.vc_id # PyNone})
    ELSE << >>

\* the cache after the loop body of populate_cache_from_results for one record:
\* an identifier the cache knows is skipped; otherwise add_vc, mark_vc_completed and,
\* for a record with a truthy scraped_at, that time as last_scraped and last_updated
populate_one(cd, vc, page_number, now) ==
    IF get_vc_status(cd, vc.vc_id) # "None" THEN cd
    ELSE LET name == IF vc.name = PyNone THEN <<"Unknown">> ELSE vc.name
             added == add_vc(cd, vc.vc_id, name, UrlOfId(vc.vc_id), page_number, now)
             marked == mark_vc_completed(added, vc.vc_id, PyNone, now)
         IN IF vc.scraped_at # NoTime
            THEN [marked EXCEPT ![vc.vc_id] =
                    [@ EXCEPT !.last_scraped = vc.scraped_at,
                              !.last_updated = vc.scraped_at]]
            ELSE marked

RECURSIVE populate_vcs(_, _, _, _)
populate_vcs(cd, vcs, page_number, now) ==
    IF vcs = << >> THEN cd
    ELSE populate_vcs(populate_one(cd, Head(vcs), page_number, now),
                      Tail(vcs), page_number, now)

\* the cache after the files of order from position i on have been processed: only
\* names that contain 'completed' and give a page number, only files that load
RECURSIVE populate_files(_, _, _, _, _)
populate_files(cd, fs, order, i, now) ==
    IF i > Len(order) THEN cd
    ELSE LET filename == order[i]
             processed == /\ NameText(filename)[Len(NameText(filename))] = ".json"
                          /\ NameContains(filename, "completed")
                          /\ extract_page_number_from_filename(filename) # 0
             after == IF processed
                      THEN populate_vcs(cd, extract_vc_data_from_results(fs[filename]),
                                        extract_page_number_from_filename(filename),
                                        now)
                      ELSE cd
         IN populate_files(after, fs, order, i + 1, now)

\* populate_cache_from_results(): a VCCacheManager on the default path; the run ends
\* at once without a results directory, and get_vc_status raises out of the script on
\* a cache that is no dict.
PopulateCacheFromResults ==
        LET loaded == _load_cache(cache_file)
            is_dict == LoadsDict(cache_file)
            records == {n \in DOMAIN files :
                            /\ NameContains(n, "completed")
                            /\ extract_vc_data_from_results(files[n]) # << >>}
            raises == results_exists /\ ~is_dict /\ records # {}
            populated == IF results_exists /\ is_dict
                         THEN populate_files(loaded, files, SortedListing(files), 1,
                                             clock)
                         ELSE loaded
        IN /\ cache_file_path = DefaultCachePath
           /\ cache_data' = populated
           /\ cache_is_dict' = is_dict
           /\ cache_file' = IF populated # loaded
                            THEN _save_cache(cache_file_path, populated, cache_file)
                            ELSE cache_file
           /\ cache_ret' = [op |-> "populate", slug |-> << >>,
                            value |-> IF raises THEN "raised" ELSE "None"]
           /\ UNCHANGED cache_file_path

\* snapshots as the page flow completes them: scraped items, and items the validation
\* turned away
MigrateSaveLists ==
    {<<ScrapedRecord(IdA)>>, <<ScrapedRecord(IdA), ValidationRecord(IdB, "inactive")>>}

SaveScrapedPage == SavePageOf(MigrateSaveLists)

\* the Cache Index as populate_cache_from_results and the scraper share it: the
\* default path
MigrateInit ==
    /\ CacheInit
    /\ cache_file_path = DefaultCachePath

----------------------------------------------------------------------------
(* Cache filtering of the Work Selector: search_page_helper.py *)

\* _filter_links_by_cache on the cache file cf: a VCCacheManager on the default path;
\* the first is_vc_completed raises on a cache that is no dict and the except returns
\* the list as it came
_filter_links_by_cache(cf, vc_links) ==
    IF ~LoadsDict(cf) THEN vc_links
    ELSE FilterSeq(vc_links,
                   {url \in SeqToSet(vc_links) :
                        ~is_vc_completed(_load_cache(cf), UrlVcId(url))})

\* existing_vcs is what load_existing_page_data gave for the current page
filter_unscraped_vcs_by_cache(cf, all_vc_links, existing_vcs, enable_cache_filtering) ==
    LET to_scrape == filter_unscraped_vcs(all_vc_links, existing_vcs)
    IN IF enable_cache_filtering THEN _filter_links_by_cache(cf, to_scrape)
       ELSE to_scrape

\* unique_links are the links the page shows
extract_vc_links_with_cache_filtering(cf, unique_links, enable_cache_filtering) ==
    IF enable_cache_filtering THEN _filter_links_by_cache(cf, unique_links)
    ELSE unique_links

CacheEntry(slug, status) ==
    IF status = "completed"
    THEN mark_vc_completed(add_vc(<< >>, slug, SomeText, UrlOfId(slug), 1, 0), slug, PyNone, 0)
    ELSE add_vc(<< >>, slug, SomeText, UrlOfId(slug), 1, 0)

\* cache files the filter may find
CacheFilterFiles ==
    {MissingCacheFile, CorruptCacheFile, OtherJsonCacheFile,
     _save_cache(DefaultCachePath, CacheEntry(IdA, "completed"), MissingCacheFile),
     _save_cache(DefaultCachePath,
                 CacheEntry(IdA, "pending") @@ CacheEntry(IdB, "completed"),
                 MissingCacheFile)}

\* snapshots of the current page the filter may find
CacheFilterExisting ==
    {<< >>, <<ScrapedRecord(IdA)>>, <<ScrapedRecord(IdB), NoInvestmentsRecord(IdA)>>}

CacheFilterInit ==
    /\ sel_links \in LinkLists
    /\ sel_existing \in CacheFilterExisting
    /\ sel_out = << >>
    /\ sel_pc = "ready"
    /\ cache_file \in CacheFilterFiles
    /\ cache_file_path = DefaultCachePath
    /\ cache_data = _load_cache(cache_file)
    /\ cache_is_dict = LoadsDict(cache_file)
    /\ cache_ret = NoCacheCall

FilterUnscrapedVcsByCache ==
    \E enable_cache_filtering \in BOOLEAN :
        /\ sel_pc = "ready"
        /\ sel_out' = filter_unscraped_vcs_by_cache(cache_file, sel_links, sel_existing,
                                                    enable_cache_filtering)
        /\ sel_pc' = IF enable_cache_filtering THEN "filter_by_cache:enabled"
                     ELSE "filter_by_cache:disabled"
        /\ UNCHANGED <<sel_links, sel_existing>>

ExtractVcLinksWithCacheFiltering ==
    \E enable_cache_filtering \in BOOLEAN :
        /\ sel_pc = "ready"
        /\ sel_out' = extract_vc_links_with_cache_filtering(cache_file, sel_links,
                                                            enable_cache_filtering)
        /\ sel_pc' = IF enable_cache_filtering THEN "extract_with_cache:enabled"
                     ELSE "extract_with_cache:disabled"
        /\ UNCHANGED <<sel_links, sel_existing>>

----------------------------------------------------------------------------
(* The investor database flow: investor_data_manager.py, direct_investor_scraper.py *)

\* str.rstrip('/')
RECURSIVE RStripSlash(_)
RStripSlash(url) ==
    IF url # << >> /\ url[Len(url)] = "/" THEN RStripSlash(SubSeq(url, 1, Len(url) - 1))
    ELSE url

\* the database key of csv_to_json_converter: url.rstrip('/').split('/')[-1], None for
\* an empty url
extract_vc_id_from_url(url) ==
    IF ~Truthy(url) THEN PyNone ELSE LastSegment(RStripSlash(url))

UrlCQuery == <<"p", "/", "c", "?", "s">>

\* the Finder URLs of the CSV rows, in the order of the database file
FinderUrls == <<UrlASlash, UrlB, UrlCQuery>>

\* the unified database of process_csv_file for the rows numbered in rows; the rows carry
\* no scraping_status
InvestorDatabase(rows) ==
    [vc_id \in {extract_vc_id_from_url(FinderUrls[i]) : i \in rows} |->
        [url |-> FinderUrls[CHOOSE i \in rows : extract_vc_id_from_url(FinderUrls[i]) = vc_id],
         scraping_status |-> "not_scraped"]]

_needs_scraping(vc_data) == vc_data.scraping_status \in {"not_scraped", "failed"}

\* get_unscraped_investors: the keys that need scraping, in the order of the database
\* (fewer than the limit of 50)
get_unscraped_investors(db) ==
    FilterSeq([i \in DOMAIN FinderUrls |-> extract_vc_id_from_url(FinderUrls[i])],
              {vc_id \in DOMAIN db : _needs_scraping(db[vc_id])})

\* mark_investor_as_scraped / _failed / _inactive / _limited: nothing changes for a
\* vc_id the database does not hold.  The time stamps and reasons are left out.
mark_investor(db, vc_id, status) ==
    IF vc_id \notin DOMAIN db THEN db
    ELSE [db EXCEPT ![vc_id] = [@ EXCEPT !.scraping_status = status]]

\* scrape_vcs_in_parallel_tabs(vc_urls, page_num=None) on a new scraper: the results, each
\* with the url the direct flow reads from it (the url scraped for a scraped record,
\* driver.current_url for a validation record); a rate limit ends the batch
RECURSIVE scrape_vcs_in_parallel_tabs(_, _, _, _, _)
scrape_vcs_in_parallel_tabs(vs, vc_urls, answers, redirected, now) ==
    IF vc_urls = << >> THEN << >>
    ELSE LET url == Head(vc_urls)
             answer == Head(answers)
             complete_data == IF answer = "timeout" THEN << >>
                              ELSE scrape_result(vs, url, answer, now)
             current_url == IF redirected THEN RStripSlash(url) ELSE url
             result == IF complete_data = << >> THEN << >>
                       ELSE <<[data |-> complete_data[1],
                               url |-> IF complete_data[1].validation_type # PyNone
                                       THEN current_url ELSE url]>>
             after == IF answer = "timeout" THEN vs ELSE scrape_status(vs, 1, url, answer)
         IN IF answer = "rate_limit" /\ _get_vc_status(vs, UrlVcId(url)) # "completed"
            THEN << >>
            ELSE result \o scrape_vcs_in_parallel_tabs(after, Tail(vc_urls), Tail(answers),
                                                       redirected, now)

\* the vc_id the direct flow reads from a result: its vc_id, or the last segment of its
\* url when that is empty
ResultVcId(result) ==
    IF Truthy(result.data.vc_id) THEN result.data.vc_id
    ELSE IF Truthy(result.url) THEN LastSegment(result.url)
    ELSE result.data.vc_id

\* the status the loop over the results gives to the vc_id of a result; "" when it
\* calls no mark_investor_as_ method
ResultStatus(result) ==
    IF result.data.validation_type # PyNone
    THEN IF result.data.status = <<"inactive">> THEN "inactive"
         ELSE IF result.data.status = <<"limited_info">> THEN "limited_info"
         ELSE ""
    ELSE IF Truthy(ResultVcId(result)) /\ Truthy(result.data.name) THEN "completed"
    ELSE "failed"

\* the database after the loop over the results
RECURSIVE process_results(_, _)
process_results(db, results) ==
    IF results = << >> THEN db
    ELSE process_results(
            IF ResultStatus(Head(results)) = "" THEN db
            ELSE mark_investor(db, ResultVcId(Head(results)), ResultStatus(Head(results))),
            Tail(results))

\* successful_vcs + failed_vcs + inactive_vcs + limited_info_vcs
processed_vc_ids(results) ==
    {ResultVcId(results[i]) : i \in {j \in DOMAIN results : ResultStatus(results[j]) # ""}}

\* the database after the loop over the investors that were not processed
RECURSIVE mark_not_processed(_, _, _)
mark_not_processed(db, investors_to_scrape, processed) ==
    IF investors_to_scrape = << >> THEN db
    ELSE mark_not_processed(
            IF Head(investors_to_scrape) \notin processed
            THEN mark_investor(db, Head(investors_to_scrape), "failed")
            ELSE db,
            Tail(investors_to_scrape), processed)

NoDbSession == [selected |-> << >>, results |-> << >>, ended |-> "none"]

DbInit ==
    /\ \E rows \in SUBSET DOMAIN FinderUrls :
           rows # {} /\ investors_data = InvestorDatabase(rows)
    /\ db_session = NoDbSession

DbIdle ==
    /\ investors_data = << >>
    /\ db_session = NoDbSession

\* run_direct_investor_session from the selection to save_database, with no exception
RunDirectInvestorSession ==
    LET investors_to_scrape == get_unscraped_investors(investors_data)
        vc_urls == [i \in DOMAIN investors_to_scrape |->
                        investors_data[investors_to_scrape[i]].url]
    IN IF investors_to_scrape = << >>
       THEN /\ db_session' = [NoDbSession EXCEPT !.ended = "nothing_to_scrape"]
            /\ UNCHANGED investors_data
       ELSE \E answers \in [DOMAIN vc_urls -> SiteAnswers], redirected \in BOOLEAN :
              LET results == scrape_vcs_in_parallel_tabs(<< >>, vc_urls, answers,
                                                         redirected, clock)
              IN /\ investors_data' =
                        mark_not_processed(process_results(investors_data, results),
                                           investors_to_scrape, processed_vc_ids(results))
                 /\ db_session' = [selected |-> investors_to_scrape, results |-> results,
                                   ended |-> "completed"]

----------------------------------------------------------------------------
(* The identifier each component derives from an item URL *)

MaxUrlLen == 4

UrlAlphabet == {"p", "a", "/", "?"}

ItemUrls == UNION {[1..n -> UrlAlphabet] : n \in 1..MaxUrlLen}

NoDerived ==
    [database_key |-> PyNone, record_vc_id |-> PyNone, status_key |-> PyNone,
     selector_slug |-> PyNone, cache_slug |-> PyNone]

\* the key of vc_status after scrape_investor_complete_with_investments(url) on a new
\* scraper
StatusKey(url) ==
    CHOOSE vc_id \in DOMAIN scrape_status(<< >>, 1, url, "scraped") : TRUE

\* the vc_id of the record scrape_investor_complete_with_investments(url) returns
RecordVcId(url) == scrape_result(<< >>, url, "scraped", 0)[1].vc_id

\* vc_id of filter_unscraped_vcs: url.split('/')[-1] if '/' in url else url
SelectorSlug(url) == UrlVcId(url)

\* slug of _filter_links_by_cache, derived the same way
CacheSlug(url) == UrlVcId(url)

IdInit ==
    /\ id_url \in ItemUrls
    /\ id_derived = NoDerived

IdIdle ==
    /\ id_url = << >>
    /\ id_derived = NoDerived

\* every component derives its identifier from id_url
DeriveIdentifiers ==
    /\ id_derived = NoDerived
    /\ id_derived' = [database_key |-> extract_vc_id_from_url(id_url),
                      record_vc_id |-> RecordVcId(id_url),
                      status_key |-> StatusKey(id_url),
                      selector_slug |-> SelectorSlug(id_url),
                      cache_slug |-> CacheSlug(id_url)]
    /\ UNCHANGED id_url

----------------------------------------------------------------------------
(* Two sessions saving a snapshot of the same unit: snc_scraper_service.py *)

Sessions == {1, 2}

\* the unit both sessions work on
RacePage == 1

RaceLists ==
    {<<ScrapedRecord(IdA)>>, <<ScrapedRecord(IdB)>>, <<ScrapedRecord(IdA), ScrapedRecord(IdB)>>}

NotWriting ==
    [pc |-> "idle", vcs |-> << >>, status |-> "", timestamp |-> 0, overlapped |-> FALSE]

\* the file a session writes
WriterFile(w) == FileName(RacePage, w.status, Len(w.vcs), w.timestamp)

RaceInit ==
    /\ writers = [s \in Sessions |-> NotWriting]
    /\ write_log = << >>

RaceIdle ==
    /\ writers = << >>
    /\ write_log = << >>

\* save_page_with_enhanced_metadata up to the file name: the time stamp is taken and a
\* save with status completed removes the in_progress and partial files of the page
SaveStamp(s) ==
    \E vcs \in RaceLists, status \in {"in_progress", "completed"} :
        /\ writers[s].pc = "idle"
        /\ writers' = [writers EXCEPT ![s] =
                          [pc |-> "stamped", vcs |-> vcs, status |-> status,
                           timestamp |-> clock, overlapped |-> FALSE]]
        /\ files' = IF status = "completed"
                    THEN _remove_old_page_files(files, RacePage, {"in_progress", "partial"})
                    ELSE files
        /\ UNCHANGED <<results_exists, clock, ret, last_save, resume_call, write_log>>

\* open(filepath, 'w'): the file exists and is empty; a session that has the same file
\* open and not yet written now shares it
SaveOpen(s) ==
    LET sharing == {t \in Sessions \ {s} :
                        writers[t].pc = "opened" /\ WriterFile(writers[t]) = WriterFile(writers[s])}
    IN /\ writers[s].pc = "stamped"
       /\ writers' = [t \in Sessions |->
                        IF t = s THEN [writers[s] EXCEPT !.pc = "opened",
                                                         !.overlapped = sharing # {}]
                        ELSE IF t \in sharing THEN [writers[t] EXCEPT !.overlapped = TRUE]
                        ELSE writers[t]]
       /\ files' = (WriterFile(writers[s]) :> CorruptContent) @@ files
       /\ UNCHANGED <<results_exists, clock, ret, last_save, resume_call, write_log>>

\* json.dump and close.  A file another session removed meanwhile stays removed; a file
\* two sessions had open together holds the bytes of this write over those of the other:
\* this session's JSON or text that does not parse
SaveWrite(s) ==
    \E content \in {EnhancedContent(RacePage, writers[s].status, writers[s].vcs)}
                       \cup (IF writers[s].overlapped THEN {CorruptContent} ELSE {}) :
        /\ writers[s].pc = "opened"
        /\ writers' = [writers EXCEPT ![s] = [@ EXCEPT !.pc = "done"]]
        /\ write_log' = Append(write_log, s)
        /\ files' = IF WriterFile(writers[s]) \in DOMAIN files
                    THEN (WriterFile(writers[s]) :> content) @@ files
                    ELSE files
        /\ UNCHANGED <<results_exists, clock, ret, last_save, resume_call>>

\* load_page_with_enhanced_metadata(page_num) after both sessions have finished
LoadAfterSaves ==
    \E order \in Listings(files) :
        /\ \A s \in Sessions : writers[s].pc = "done"
        /\ ret' = LET loaded == load_page_with_enhanced_metadata(results_exists, files, order,
                                                                 RacePage)
                  IN [op |-> "load_after_saves", page |-> RacePage, vcs |-> loaded.vcs,
                      status |-> loaded.status]
        /\ UNCHANGED <<results_exists, files, clock, last_save, resume_call, writers, write_log>>

----------------------------------------------------------------------------
(* The loop over the pages: page_orchestrator.py *)

SafetyLimit == 50

MaxGoodPages == 2

StartPages == {1, 2, SafetyLimit - 1, SafetyLimit}

\* what a page of the site does: process_single_page returns results, returns none,
\* meets the rate limit, or navigate_to_page fails
PageAnswers == {"results", "no_results", "rate_limit", "no_page"}

NoPagesCall == [start_page |-> 0, end_page |-> 0, good_pages |-> 0, then |-> "none"]
NoPagesReturn == [returned |-> 0, last_processed |-> 0, stop |-> "none"]

\* the first good_pages pages from start_page on return results, the later ones do
\* call.then
PageAnswer(call, page_num) ==
    IF page_num < call.start_page + call.good_pages THEN "results" ELSE call.then

\* the while loop of scrape_pages from page_num on: the page number returned
\* (page_num - 1 at the break), the page most recently passed to process_single_page
\* (0 when none was) and the break taken; an end_page of 0 stands for None
RECURSIVE scrape_pages_from(_, _, _)
scrape_pages_from(call, page_num, last_processed) ==
    LET answer == PageAnswer(call, page_num)
        break(stop, processed) ==
            [returned |-> page_num - 1, last_processed |-> processed, stop |-> stop]
    IN IF answer = "no_page" THEN break("no_page", last_processed)
       ELSE IF call.end_page # 0 /\ page_num >= call.end_page THEN break("end_page", page_num)
       ELSE IF answer = "rate_limit" THEN break("rate_limit", page_num)
       ELSE IF answer = "no_results" THEN break("no_results", page_num)
       ELSE IF page_num + 1 > SafetyLimit
            THEN [returned |-> (page_num + 1) - 1, last_processed |-> page_num,
                  stop |-> "safety_limit"]
       ELSE scrape_pages_from(call, page_num + 1, page_num)

scrape_pages(call) == scrape_pages_from(call, call.start_page, 0)

PagesInit ==
    /\ \E start_page \in StartPages, good_pages \in 0..MaxGoodPages, then \in PageAnswers :
         \E end_page \in {0, start_page, start_page + 1} :
            pages_call = [start_page |-> start_page, end_page |-> end_page,
                          good_pages |-> good_pages, then |-> then]
    /\ pages_ret = NoPagesReturn

PagesIdle ==
    /\ pages_call = NoPagesCall
    /\ pages_ret = NoPagesReturn

ScrapePages ==
    /\ pages_ret = NoPagesReturn
    /\ pages_ret' = scrape_pages(pages_call)
    /\ UNCHANGED pages_call

----------------------------------------------------------------------------
(* Specifications *)

dbVars == <<investors_data, db_session>>
idVars == <<id_url, id_derived>>
raceVars == <<writers, write_log>>
pagesVars == <<pages_call, pages_ret>>
vars == <<clsVars, selVars, diskVars, trkVars, runVars, cacheVars, dbVars, idVars, raceVars,
         pagesVars>>

InitClassify == ClsInit /\ SelIdle /\ DiskIdle /\ TrkIdle /\ RunIdle /\ CacheIdle /\ DbIdle /\ IdIdle /\ RaceIdle /\ PagesIdle
ClassifyStep == DetermineVcStatus /\ UNCHANGED <<selVars, diskVars, trkVars, runVars, cacheVars, dbVars, idVars, raceVars, pagesVars>>
SpecClassify == InitClassify /\ [][ClassifyStep]_vars

InitSelect == SelInit /\ ClsIdle /\ DiskIdle /\ TrkIdle /\ RunIdle /\ CacheIdle /\ DbIdle /\ IdIdle /\ RaceIdle /\ PagesIdle
SelectStep == FilterUnscrapedVcs /\ UNCHANGED <<clsVars, diskVars, trkVars, runVars, cacheVars, dbVars, idVars, raceVars, pagesVars>>
SpecSelect == InitSelect /\ [][SelectStep]_vars

InitCacheFilter == CacheFilterInit /\ ClsIdle /\ DiskIdle /\ TrkIdle /\ RunIdle /\ DbIdle /\ IdIdle /\ RaceIdle /\ PagesIdle
CacheFilterByCache ==
    FilterUnscrapedVcsByCache /\ UNCHANGED <<clsVars, diskVars, trkVars, runVars, cacheVars, dbVars, idVars, raceVars, pagesVars>>
CacheFilterExtract ==
    ExtractVcLinksWithCacheFiltering
        /\ UNCHANGED <<clsVars, diskVars, trkVars, runVars, cacheVars, dbVars, idVars, raceVars, pagesVars>>
NextCacheFilter == CacheFilterByCache \/ CacheFilterExtract
SpecCacheFilter == InitCacheFilter /\ [][NextCacheFilter]_vars

InitDisk == DiskInit /\ ClsIdle /\ SelIdle /\ TrkIdle /\ RunIdle /\ CacheIdle /\ DbIdle /\ IdIdle /\ RaceIdle /\ PagesIdle
DiskTick == Tick /\ UNCHANGED <<clsVars, selVars, trkVars, runVars, cacheVars, dbVars, idVars, raceVars, pagesVars>>
DiskSave == SavePage /\ UNCHANGED <<clsVars, selVars, trkVars, runVars, cacheVars, dbVars, idVars, raceVars, pagesVars>>
DiskPlan == LoadPreviousState /\ UNCHANGED <<clsVars, selVars, trkVars, runVars, cacheVars, dbVars, idVars, raceVars, pagesVars>>
DiskLoad == LoadPage /\ UNCHANGED <<clsVars, selVars, trkVars, runVars, cacheVars, dbVars, idVars, raceVars, pagesVars>>
DiskLoadExisting == LoadExistingPageData /\ UNCHANGED <<clsVars, selVars, trkVars, runVars, cacheVars, dbVars, idVars, raceVars, pagesVars>>
NextDisk == DiskTick \/ DiskSave \/ DiskPlan \/ DiskLoad \/ DiskLoadExisting
SpecDisk == InitDisk /\ [][NextDisk]_vars

InitPrefix == DiskInit /\ ClsIdle /\ SelIdle /\ TrkIdle /\ RunIdle /\ CacheIdle /\ DbIdle /\ IdIdle /\ RaceIdle /\ PagesIdle
PrefixTick == Tick /\ UNCHANGED <<clsVars, selVars, trkVars, runVars, cacheVars, dbVars, idVars, raceVars, pagesVars>>
PrefixSave == SavePageAnyStatus /\ UNCHANGED <<clsVars, selVars, trkVars, runVars, cacheVars, dbVars, idVars, raceVars, pagesVars>>
NextPrefix == PrefixTick \/ PrefixSave
SpecPrefix == InitPrefix /\ [][NextPrefix]_vars

InitFound == FoundInit /\ ClsIdle /\ SelIdle /\ TrkIdle /\ RunIdle /\ CacheIdle /\ DbIdle /\ IdIdle /\ RaceIdle /\ PagesIdle
FoundTick == Tick /\ UNCHANGED <<clsVars, selVars, trkVars, runVars, cacheVars, dbVars, idVars, raceVars, pagesVars>>
FoundSave == SavePage /\ UNCHANGED <<clsVars, selVars, trkVars, runVars, cacheVars, dbVars, idVars, raceVars, pagesVars>>
FoundPlan == LoadPreviousState /\ UNCHANGED <<clsVars, selVars, trkVars, runVars, cacheVars, dbVars, idVars, raceVars, pagesVars>>
FoundLoad == LoadPage /\ UNCHANGED <<clsVars, selVars, trkVars, runVars, cacheVars, dbVars, idVars, raceVars, pagesVars>>
FoundLoadExisting ==
    LoadExistingPageData /\ UNCHANGED <<clsVars, selVars, trkVars, runVars, cacheVars, dbVars, idVars, raceVars, pagesVars>>
NextFound == FoundTick \/ FoundSave \/ FoundPlan \/ FoundLoad \/ FoundLoadExisting
SpecFound == InitFound /\ [][NextFound]_vars

InitResume == ResumeInit /\ ClsIdle /\ SelIdle /\ TrkIdle /\ RunIdle /\ CacheIdle /\ DbIdle /\ IdIdle /\ RaceIdle /\ PagesIdle
ResumeExperimental ==
    LoadPreviousStateExperimental
        /\ UNCHANGED <<clsVars, selVars, trkVars, runVars, cacheVars, dbVars, idVars, raceVars, pagesVars>>
ResumeDetect ==
    DetectResumePointExperimental
        /\ UNCHANGED <<clsVars, selVars, trkVars, runVars, cacheVars, dbVars, idVars, raceVars, pagesVars>>
NextResume == ResumeExperimental \/ ResumeDetect
SpecResume == InitResume /\ [][NextResume]_vars

InitTracker == TrkInit /\ ClsIdle /\ SelIdle /\ DiskIdle /\ RunIdle /\ CacheIdle /\ DbIdle /\ IdIdle /\ RaceIdle /\ PagesIdle
TrackerSet == SetVcStatus /\ UNCHANGED <<clsVars, selVars, diskVars, runVars, cacheVars, dbVars, idVars, raceVars, pagesVars>>
TrackerUpdatePage == UpdatePageCompletion /\ UNCHANGED <<clsVars, selVars, diskVars, runVars, cacheVars, dbVars, idVars, raceVars, pagesVars>>
TrackerSaveProgress == SavePageProgress /\ UNCHANGED <<clsVars, selVars, diskVars, runVars, cacheVars, dbVars, idVars, raceVars, pagesVars>>
TrackerSetPage == SetCurrentPage /\ UNCHANGED <<clsVars, selVars, diskVars, runVars, cacheVars, dbVars, idVars, raceVars, pagesVars>>
NextTracker == TrackerSet \/ TrackerUpdatePage \/ TrackerSaveProgress \/ TrackerSetPage
SpecTracker == InitTracker /\ [][NextTracker]_vars

InitRun == RunInit /\ TrkInit /\ DiskIdle /\ ClsIdle /\ SelIdle /\ CacheIdle /\ DbIdle /\ IdIdle /\ RaceIdle /\ PagesIdle
RunTick == Tick /\ UNCHANGED <<clsVars, selVars, trkVars, runVars, cacheVars, dbVars, idVars, raceVars, pagesVars>>
RunStart == StartSession /\ UNCHANGED <<clsVars, selVars, cacheVars, dbVars, idVars, raceVars, pagesVars>>
RunScrape == ScrapeTab /\ UNCHANGED <<clsVars, selVars, cacheVars, dbVars, idVars, raceVars, pagesVars>>
RunFinish == FinishPage /\ UNCHANGED <<clsVars, selVars, cacheVars, dbVars, idVars, raceVars, pagesVars>>
RunCrash == Crash /\ UNCHANGED <<clsVars, selVars, cacheVars, dbVars, idVars, raceVars, pagesVars>>
RunInterrupt == InterruptCaught /\ UNCHANGED <<clsVars, selVars, cacheVars, dbVars, idVars, raceVars, pagesVars>>
RunInterruptSwallowed == InterruptSwallowed /\ UNCHANGED <<clsVars, selVars, cacheVars, dbVars, idVars, raceVars, pagesVars>>
RunInterruptSetup == InterruptSetup /\ UNCHANGED <<clsVars, selVars, cacheVars, dbVars, idVars, raceVars, pagesVars>>
NextRun ==
    \/ RunTick \/ RunStart \/ RunScrape \/ RunFinish \/ RunCrash
    \/ RunInterrupt \/ RunInterruptSwallowed \/ RunInterruptSetup
SpecRun == InitRun /\ [][NextRun]_vars

InitCache == CacheInit /\ DiskIdle /\ ClsIdle /\ SelIdle /\ TrkIdle /\ RunIdle /\ DbIdle /\ IdIdle /\ RaceIdle /\ PagesIdle
CacheTick == Tick /\ UNCHANGED <<clsVars, selVars, trkVars, runVars, cacheVars, dbVars, idVars, raceVars, pagesVars>>
CacheAdd == AddVc /\ UNCHANGED <<clsVars, selVars, diskVars, trkVars, runVars, dbVars, idVars, raceVars, pagesVars>>
CacheMarkCompleted == MarkVcCompleted /\ UNCHANGED <<clsVars, selVars, diskVars, trkVars, runVars, dbVars, idVars, raceVars, pagesVars>>
CacheMarkFailed == MarkVcFailed /\ UNCHANGED <<clsVars, selVars, diskVars, trkVars, runVars, dbVars, idVars, raceVars, pagesVars>>
CacheOpen == OpenCache /\ UNCHANGED <<clsVars, selVars, diskVars, trkVars, runVars, dbVars, idVars, raceVars, pagesVars>>
CacheQuery == IsVcCompleted /\ UNCHANGED <<clsVars, selVars, diskVars, trkVars, runVars, dbVars, idVars, raceVars, pagesVars>>
NextCache ==
    \/ CacheTick \/ CacheAdd \/ CacheMarkCompleted \/ CacheMarkFailed \/ CacheOpen
    \/ CacheQuery
SpecCache == InitCache /\ [][NextCache]_vars

InitMigrate == DiskInit /\ MigrateInit /\ ClsIdle /\ SelIdle /\ TrkIdle /\ RunIdle /\ DbIdle /\ IdIdle /\ RaceIdle /\ PagesIdle
MigrateTick == Tick /\ UNCHANGED <<clsVars, selVars, trkVars, runVars, cacheVars, dbVars, idVars, raceVars, pagesVars>>
MigrateSave == SaveScrapedPage /\ UNCHANGED <<clsVars, selVars, trkVars, runVars, cacheVars, dbVars, idVars, raceVars, pagesVars>>
MigrateAdd == AddVc /\ UNCHANGED <<clsVars, selVars, diskVars, trkVars, runVars, dbVars, idVars, raceVars, pagesVars>>
MigrateMarkFailed == MarkVcFailed /\ UNCHANGED <<clsVars, selVars, diskVars, trkVars, runVars, dbVars, idVars, raceVars, pagesVars>>
MigratePopulate ==
    PopulateCacheFromResults /\ UNCHANGED <<clsVars, selVars, diskVars, trkVars, runVars, dbVars, idVars, raceVars, pagesVars>>
NextMigrate ==
    \/ MigrateTick \/ MigrateSave \/ MigrateAdd \/ MigrateMarkFailed \/ MigratePopulate
SpecMigrate == InitMigrate /\ [][NextMigrate]_vars

InitDirect == DbInit /\ ClsIdle /\ SelIdle /\ DiskIdle /\ TrkIdle /\ RunIdle /\ CacheIdle /\ IdIdle /\ RaceIdle /\ PagesIdle
DirectSession ==
    RunDirectInvestorSession
        /\ UNCHANGED <<clsVars, selVars, diskVars, trkVars, runVars, cacheVars, idVars, raceVars, pagesVars>>
SpecDirect == InitDirect /\ [][DirectSession]_vars

InitIdentify == IdInit /\ ClsIdle /\ SelIdle /\ DiskIdle /\ TrkIdle /\ RunIdle /\ CacheIdle /\ DbIdle /\ RaceIdle /\ PagesIdle
IdentifyDerive ==
    DeriveIdentifiers
        /\ UNCHANGED <<clsVars, selVars, diskVars, trkVars, runVars, cacheVars, dbVars, raceVars, pagesVars>>
SpecIdentify == InitIdentify /\ [][IdentifyDerive]_vars

InitRace == RaceInit /\ DiskIdle /\ ClsIdle /\ SelIdle /\ TrkIdle /\ RunIdle /\ CacheIdle /\ DbIdle /\ IdIdle /\ PagesIdle
RaceTick == Tick /\ UNCHANGED <<clsVars, selVars, trkVars, runVars, cacheVars, dbVars, idVars, raceVars, pagesVars>>
RaceStamp ==
    (\E s \in Sessions : SaveStamp(s))
        /\ UNCHANGED <<clsVars, selVars, trkVars, runVars, cacheVars, dbVars, idVars, pagesVars>>
RaceOpen ==
    (\E s \in Sessions : SaveOpen(s))
        /\ UNCHANGED <<clsVars, selVars, trkVars, runVars, cacheVars, dbVars, idVars, pagesVars>>
RaceWrite ==
    (\E s \in Sessions : SaveWrite(s))
        /\ UNCHANGED <<clsVars, selVars, trkVars, runVars, cacheVars, dbVars, idVars, pagesVars>>
RaceLoad ==
    LoadAfterSaves
        /\ UNCHANGED <<clsVars, selVars, trkVars, runVars, cacheVars, dbVars, idVars, pagesVars>>
NextRace == RaceTick \/ RaceStamp \/ RaceOpen \/ RaceWrite \/ RaceLoad
SpecRace == InitRace /\ [][NextRace]_vars

InitPages == PagesInit /\ ClsIdle /\ SelIdle /\ DiskIdle /\ TrkIdle /\ RunIdle /\ CacheIdle /\ DbIdle /\ IdIdle /\ RaceIdle
PagesScrape ==
    ScrapePages
        /\ UNCHANGED <<clsVars, selVars, diskVars, trkVars, runVars, cacheVars, dbVars, idVars, raceVars>>
SpecPages == InitPages /\ [][PagesScrape]_vars

----------------------------------------------------------------------------
(* Claims about the Work Selector *)

\* "non-empty" as the claims use it: present and neither "" nor []
NonEmptyValue(v) == v # PyNone /\ v # << >>

\* the content-based classification as the specification words it
ClassifiedScraped(r) ==
    /\ r.is_dict
    /\ \E f \in KeyOverviewFields : NonEmptyValue(r[f])
    /\ NonEmptyValue(r.investments)

\* C2: determine_vc_status returns "scraped" if and only if at least one key overview
\* field (founded, overview, exits, investment_stages) is non-empty and the investments
\* list is non-empty, "not_scraped" otherwise; whatever the stored status field holds,
\* the result is the same.
C2_ClassifyScraped ==
    cls_out # "none" =>
        /\ cls_out \in {"scraped", "not_scraped"}
        /\ (cls_out = "scraped") <=> ClassifiedScraped(cls_rec)
        /\ (cls_rec.is_dict /\ ~NonEmptyValue(cls_rec.investments)) => cls_out = "not_scraped"
        /\ (cls_rec.is_dict /\ \A f \in KeyOverviewFields : ~NonEmptyValue(cls_rec[f]))
              => cls_out = "not_scraped"
        /\ \A s \in StatusVals \cup {<<"scraped">>, <<"inactive">>} :
              determine_vc_status([cls_rec EXCEPT !.status = s]) = cls_out

\* C2 witness: a record with exactly one key field populated, investments populated and
\* a stored status of "failed" has been classified "scraped".
C2_Witness ==
    /\ cls_out = "scraped"
    /\ cls_rec.status = <<"failed">>
    /\ Cardinality({f \in KeyOverviewFields : NonEmptyValue(cls_rec[f])}) = 1

\* the vc_id values of the snapshot records classified scraped (a record without the key
\* has none)
ScrapedRecordIds(existing) ==
    {existing[i].vc_id : i \in {j \in DOMAIN existing :
        ClassifiedScraped(existing[j]) /\ existing[j].vc_id # PyNone}}

SelectorReturns(ids) ==
    LET kept == {i \in DOMAIN sel_links : UrlVcId(sel_links[i]) \notin ids}
    IN /\ SeqToSet(sel_out) = {sel_links[i] : i \in kept}
       /\ NoDuplicates(sel_out)
       /\ Len(sel_out) = Len(sel_links) - Cardinality(DOMAIN sel_links \ kept)

\* C1: with a non-empty snapshot, filter_unscraped_vcs returns exactly the
\* candidate URLs whose last path segment is not the vc_id of a record classified
\* scraped, each once (N - M of them).
C1_Original ==
    (sel_pc = "done" /\ sel_existing # << >>) =>
        SelectorReturns(ScrapedRecordIds(sel_existing))

----------------------------------------------------------------------------
(* Claims about the snapshot files and the baseline Resume Planner *)

\* the units with a persisted snapshot of the given status
UnitsWithStatus(st) ==
    {files[n].page_number : n \in {m \in DOMAIN files :
        files[m].format = "enhanced" /\ files[m].status = st}}

\* C3: load_previous_state returns an in-progress unit if any snapshot has status
\* in_progress, also when completed units with a higher identifier exist; otherwise one
\* past the highest completed unit; otherwise (no snapshots, or no results directory) 1.
C3_BaselineResume ==
    ret.op = "load_previous_state" =>
        /\ UnitsWithStatus("in_progress") # {} => ret.page \in UnitsWithStatus("in_progress")
        /\ (UnitsWithStatus("in_progress") = {} /\ UnitsWithStatus("completed") # {})
              => \E top \in UnitsWithStatus("completed") :
                    /\ \A u \in UnitsWithStatus("completed") : u <= top
                    /\ ret.page = top + 1
        /\ (UnitsWithStatus("in_progress") = {} /\ UnitsWithStatus("completed") = {})
              => ret.page = 1
        /\ ~results_exists => ret.page = 1

\* C3 witness: unit 1 in progress and unit 2 completed on disk, and the planner returned 1.
C3_Witness ==
    /\ ret.op = "load_previous_state"
    /\ UnitsWithStatus("in_progress") = {1}
    /\ UnitsWithStatus("completed") = {2}
    /\ ret.page = 1

\* C3 second case, reached as well: units 1 and 2 completed give 3.
C3_WitnessCompleted ==
    /\ ret.op = "load_previous_state"
    /\ UnitsWithStatus("completed") = {1, 2}
    /\ ret.page = 3

\* C4: with several in-progress units the planner returns the highest in-progress unit,
\* whatever the order in which the directory lists the files.
C4_HighestInProgress ==
    (ret.op = "load_previous_state" /\ UnitsWithStatus("in_progress") # {}) =>
        \A u \in UnitsWithStatus("in_progress") : u <= ret.page

\* C10: after any sequence of saves of a unit, loading that unit (by either loader)
\* returns the item list and the status of the most recent save.
C10_RoundTrip ==
    (ret.op \in {"load_page", "load_existing"} /\ ret.page = last_save.page) =>
        /\ ret.vcs = last_save.vcs
        /\ ret.status = last_save.status

StatusesOnDisk(page_num) ==
    {files[n].status : n \in {m \in DOMAIN files : IsPageFile(m, page_num)}}

\* C11: when several snapshot files exist for a unit, loading the unit returns the most
\* authoritative one, completed before in_progress, whatever the enumeration order.
C11_MostAuthoritative ==
    ret.op \in {"load_page", "load_existing"} =>
        /\ "completed" \in StatusesOnDisk(ret.page) => ret.status = "completed"
        /\ ("completed" \notin StatusesOnDisk(ret.page)
               /\ "in_progress" \in StatusesOnDisk(ret.page)) => ret.status = "in_progress"

\* C12: a save of unit U with status completed leaves no in_progress or partial snapshot
\* file of U on disk and leaves the files of every other unit, also of a unit whose
\* number starts with U's digits, as they were.
C12_CompletedSaveFrame ==
    [][(ret'.op = "save" /\ last_save'.status = "completed") =>
          /\ \A n \in DOMAIN files' :
                 n.page = last_save'.page => n.status \notin {"in_progress", "partial"}
          /\ \A n \in DOMAIN files \cup DOMAIN files' :
                 n.page # last_save'.page =>
                     /\ n \in DOMAIN files /\ n \in DOMAIN files'
                     /\ files'[n] = files[n]
      ]_vars

\* C12 witness: unit 1 was just saved as completed while unit 10 keeps an in_progress
\* snapshot
C12_Witness ==
    /\ ret.op = "save"
    /\ last_save.page = 1
    /\ last_save.status = "completed"
    /\ \E n \in DOMAIN files : n.page = 10 /\ n.status = "in_progress"
    /\ \A n \in DOMAIN files : n.page = 1 => n.status = "completed"

WellFormed(fs) == Restrict(fs, {n \in DOMAIN fs : fs[n].format = "enhanced"})

\* C13: whatever the results directory holds, load_previous_state returns the baseline
\* answer of the well-formed snapshots alone (for some enumeration of them): unparsable
\* files are skipped and do not change the answer.
C13_BadFilesSkipped ==
    ret.op = "load_previous_state" =>
        \E order \in Listings(WellFormed(files)) :
            ret.page = load_previous_state(results_exists, WellFormed(files), order)

\* C14: when the only other snapshot files of a unit are corrupt JSON, a load of the unit
\* after a save of the unit returns the saved items and status.
C14_PersistOverCorrupt ==
    (/\ ret.op \in {"load_page", "load_existing"}
     /\ ret.page = last_save.page
     /\ \A n \in DOMAIN files :
            n.page = ret.page =>
                \/ files[n].format = "corrupt"
                \/ files[n] = EnhancedContent(last_save.page, last_save.status,
                                              last_save.vcs))
    => /\ ret.vcs = last_save.vcs
       /\ ret.status = last_save.status

----------------------------------------------------------------------------
(* Claims about the in-memory tracker *)

TerminalStatuses == {"completed", "inactive", "limited_info"}

ItemsDiscoveredOn(page_num) ==
    {vc_id \in DOMAIN vc_status : vc_status[vc_id].discovered_on_page = page_num}

\* C9: right after _update_page_completion(unit) the unit is in the completed set if and
\* only if at least one item was discovered on it and every such item has a terminal
\* status (completed, inactive, limited_info); with no item the unit is not completed.
C9_UnitCompletion ==
    trk_last # 0 =>
        (trk_last \in completed_pages <=>
            /\ ItemsDiscoveredOn(trk_last) # {}
            /\ \A vc_id \in ItemsDiscoveredOn(trk_last) :
                   vc_status[vc_id].status \in TerminalStatuses)

----------------------------------------------------------------------------
(* Claims about the page flow *)

PageCompletedOnDisk(page_num) ==
    \E n \in DOMAIN files : IsPageFile(n, page_num) /\ files[n].status = "completed"

\* C5: a unit's snapshot is persisted with status completed only if every item discovered
\* on the unit has reached a terminal status (completed, inactive, limited_info); a unit
\* with a failed or never attempted item is not marked completed.
C5_CompletedOnlyIfAllTerminal ==
    \A page_num \in 1..2 :
        PageCompletedOnDisk(page_num) =>
            \A url \in SiteLinks(page_num) : outcome[url] \in TerminalStatuses

\* C6: an item whose attempt failed is retried in a later run: between sessions the
\* Resume Planner has not moved past the unit of an item whose last attempt failed (it
\* only moves forward, so a unit it has passed is never selected again).
C6_FailedItemRetried ==
    run_pc = "idle" =>
        \A page_num \in 1..2 : \A url \in SiteLinks(page_num) :
            outcome[url] = "failed" =>
                \E order \in Listings(files) :
                    load_previous_state(results_exists, files, order) <= page_num

\* C15: after a crash at most the item in process is lost: an item whose outcome was
\* recorded (its record was appended and save_page_progress ran) is not put into a later
\* batch by the resume logic.
C15_RecordedNotRescraped ==
    run_pc = "scraping" =>
        \A i \in DOMAIN vcs_to_scrape :
            outcome[vcs_to_scrape[i]] \notin TerminalStatuses

\* C16: a session in which a KeyboardInterrupt was delivered ends by returning, after
\* save_current_state wrote the in-memory item statuses.
C16_InterruptSavesState ==
    (session.interrupted /\ session.ended # "running") =>
        /\ session.ended = "returned"
        /\ session.state_saved
        /\ session.vc_status = vc_status

----------------------------------------------------------------------------
(* Claims about terminal statuses *)

\* C7: an item whose earlier outcome was inactive or limited_info is never selected
\* again: the Work Selector does not return the URL of an item for which the snapshot
\* holds a record with status inactive or limited_info.
C7_TerminalNeverSelected ==
    sel_pc = "done" =>
        \A i \in DOMAIN sel_existing :
            (/\ sel_existing[i].is_dict
             /\ sel_existing[i].status \in {<<"inactive">>, <<"limited_info">>}
             /\ Truthy(sel_existing[i].vc_id))
            => \A j \in DOMAIN sel_out : UrlVcId(sel_out[j]) # sel_existing[i].vc_id

\* C8: in every status store a terminal status (completed, inactive, limited_info) is
\* never replaced by another status: no step changes the status of an item that is
\* terminal in the in-memory tracker or in the Cache Index.
C8_TerminalKept ==
    [][/\ \A vc_id \in DOMAIN vc_status :
              vc_status[vc_id].status \in TerminalStatuses
                  => vc_status'[vc_id].status = vc_status[vc_id].status
       /\ \A slug \in DOMAIN cache_data :
              cache_data[slug].scraping_status \in TerminalStatuses
                  => /\ slug \in DOMAIN cache_data'
                     /\ cache_data'[slug].scraping_status = cache_data[slug].scraping_status
      ]_vars

----------------------------------------------------------------------------
(* Claims about the Cache Index *)

UnusableCacheFile ==
    ~cache_file.exists \/ cache_file.kind \in {"corrupt", "other"}

\* C17: while the cache file is missing, unreadable or holds no cache object,
\* is_vc_completed returns False for every identifier and never raises.
C17_UnusableCacheSaysNotCompleted ==
    (cache_ret.op = "is_vc_completed" /\ UnusableCacheFile) => cache_ret.value = "False"

\* C18: add_vc for an identifier already in the cache returns the failure indicator and
\* leaves the cache as it was (size and every field of the entry).
C18_AddVcIdempotent ==
    [][(CacheAdd /\ cache_ret'.slug \in DOMAIN cache_data) =>
          /\ cache_ret'.value = "False"
          /\ cache_data' = cache_data
      ]_vars

\* C19: for every cache file path, when a mutating cache operation has returned, a VCCacheManager created on the
\* cache file loads exactly the in-memory cache; an operation on an unknown identifier
\* (mark_vc_completed, mark_vc_failed) changes neither memory nor file.
C19_WriteThrough ==
    [][(CacheAdd \/ CacheMarkCompleted \/ CacheMarkFailed) =>
          /\ _load_cache(cache_file') = cache_data'
          /\ LoadsDict(cache_file') = cache_is_dict'
          /\ (~CacheAdd /\ cache_ret'.slug \notin DOMAIN cache_data) =>
                 (cache_data' = cache_data /\ cache_file' = cache_file)
      ]_vars

\* the identifiers recorded in the completed snapshots of the results directory
CompletedSnapshotIds(fs) ==
    UNION {{fs[n].vcs[i].vc_id : i \in DOMAIN fs[n].vcs} :
           n \in {m \in DOMAIN fs : m.status = "completed" /\ fs[m].format = "enhanced"}}

\* C20: once the migration from snapshots has run over a usable cache, every item
\* recorded in a completed unit snapshot is completed in the Cache Index, also an item
\* the cache already held as pending or failed (the scraping flow never writes the
\* Cache Index, so the migration is the only step that can bring this about).
C20_SnapshotItemsCompletedInCache ==
    [][(MigratePopulate /\ cache_ret'.value # "raised") =>
          \A slug \in CompletedSnapshotIds(files') :
              /\ slug \in DOMAIN cache_data'
              /\ cache_data'[slug].scraping_status = "completed"
      ]_vars

----------------------------------------------------------------------------
(* Claims about the migration from snapshots *)

\* the records with identifier slug in the completed snapshots the import reads
ImportedRecords(fs, slug) ==
    UNION {{fs[n].vcs[i] : i \in {j \in DOMAIN fs[n].vcs : fs[n].vcs[j].vc_id = slug}} :
           n \in {m \in DOMAIN fs : m.status = "completed" /\ fs[m].format = "enhanced"}}

\* C21: an import run leaves every entry the cache already held unchanged; every
\* identifier of a completed snapshot that the cache did not hold is added as completed
\* with last_scraped equal to the scrape time of its record, not the time of the
\* import; and a second run right after changes nothing.
C21_BulkImport ==
    [][(MigratePopulate /\ cache_ret'.value # "raised") =>
          LET before == _load_cache(cache_file)
          IN /\ \A slug \in DOMAIN before :
                    slug \in DOMAIN cache_data' /\ cache_data'[slug] = before[slug]
             /\ \A slug \in CompletedSnapshotIds(files) \ DOMAIN before :
                    /\ slug \in DOMAIN cache_data'
                    /\ cache_data'[slug].scraping_status = "completed"
                    /\ \E vc \in ImportedRecords(files, slug) :
                           cache_data'[slug].last_scraped = vc.scraped_at
             /\ populate_files(cache_data', files, SortedListing(files), 1, clock)
                    = cache_data'
      ]_vars

----------------------------------------------------------------------------
(* Claims about cache filtering *)

\* the result of the snapshot-based filter
SnapshotFiltered == filter_unscraped_vcs(sel_links, sel_existing)

\* C22: with cache filtering enabled and a readable cache, both cache-filtering entry
\* points return the snapshot-filtered list without exactly the links the cache reports
\* completed; with cache filtering disabled, or a cache whose read fails, they return
\* the snapshot-filtered list unchanged.
C22_CacheFilterOnlyNarrows ==
    sel_pc \in {"filter_by_cache:enabled", "filter_by_cache:disabled",
                "extract_with_cache:enabled", "extract_with_cache:disabled"} =>
        IF sel_pc \in {"filter_by_cache:enabled", "extract_with_cache:enabled"}
           /\ cache_is_dict
        THEN sel_out = FilterSeq(SnapshotFiltered,
                                 {url \in SeqToSet(SnapshotFiltered) :
                                    ~is_vc_completed(cache_data, UrlVcId(url))})
        ELSE sel_out = SnapshotFiltered

----------------------------------------------------------------------------
(* Claims about the enhanced resume planner *)

\* the pages load_previous_state may return on the directory as it is
BaselinePages ==
    {load_previous_state(results_exists, files, order) : order \in Listings(files)}

\* C23: with enable_experimental = False (the default) load_previous_state_experimental
\* returns, and stores as target_page, a page the baseline load_previous_state returns
\* on the same results directory, and a detector built with the flag off returns None.
C23_DisabledIsBaseline ==
    /\ (ret.op = "load_previous_state_experimental" /\ ~resume_call.enable_experimental)
           => ret.page \in BaselinePages
    /\ (ret.op = "detect_resume_point_experimental" /\ ~resume_call.enable_experimental)
           => ret.page = 0

\* C23 witness: a disabled call on a directory where the enhanced detection would have
\* answered differently from the baseline
C23_Witness ==
    /\ ret.op = "load_previous_state_experimental"
    /\ ~resume_call.enable_experimental
    /\ resume_call.imported
    /\ \E order \in Listings(files) :
           /\ detect_resume_point_experimental(TRUE, results_exists, files, order, "none") # 0
           /\ detect_resume_point_experimental(TRUE, results_exists, files, order, "none")
                  \notin BaselinePages

\* C24: when a step of the enhanced detection raises, the enabled
\* load_previous_state_experimental returns a page the baseline returns on the same
\* results directory.
C24_FaultFallsBackToBaseline ==
    (/\ ret.op = "load_previous_state_experimental"
     /\ resume_call.enable_experimental
     /\ resume_call.imported
     /\ resume_call.fault # "none") => ret.page \in BaselinePages

\* the unit in progress as the detector finds it, 0 when there is none
UnitInProgress == _find_last_in_progress_page(results_exists, files, FALSE)

\* the items recorded for a unit that the Work Selector's classification does not call
\* scraped
UnscrapedItemsOf(fs, page_num) ==
    UNION {{fs[n].vcs[i] : i \in {j \in DOMAIN fs[n].vcs :
                                      determine_vc_status(fs[n].vcs[j]) # "scraped"}} :
           n \in {m \in DOMAIN fs : m.page = page_num}}

\* a unit still has unscraped items when nothing is recorded for it or when a recorded
\* item is not classified scraped
UnitHasUnscrapedItems(fs, page_num) ==
    \/ \A n \in DOMAIN fs : n.page = page_num => fs[n].vcs = << >>
    \/ UnscrapedItemsOf(fs, page_num) # {}

\* C25: with a unit P in progress and no step failing, the enhanced detection returns
\* P or P-1 and never a page below 1, and for P > 1 it returns P-1 exactly when unit
\* P-1 still has unscraped items by the Work Selector's classification.
C25_ResumeByClassification ==
    (/\ ret.op = "detect_resume_point_experimental"
     /\ resume_call.enable_experimental
     /\ resume_call.fault = "none"
     /\ UnitInProgress >= 1) =>
        /\ ret.page \in {UnitInProgress, UnitInProgress - 1}
        /\ ret.page >= 1
        /\ UnitInProgress > 1 =>
              (ret.page = UnitInProgress - 1
                  <=> UnitHasUnscrapedItems(files, UnitInProgress - 1))

----------------------------------------------------------------------------
(* Claims about the investor database flow *)

\* the results of the last session that belong to the investor with database key vc_id:
\* those scraped from its url
ResultsOf(vc_id) ==
    {db_session.results[i] : i \in {j \in DOMAIN db_session.results :
        RStripSlash(db_session.results[j].url) = RStripSlash(investors_data[vc_id].url)}}

\* C26: when a direct investor session has ended normally, every selected investor whose
\* outcome record carries validation_type is inactive or limited_info (never failed),
\* one whose record lacks it is completed when the record has an identifier and a name
\* and failed otherwise, one without an outcome record is failed; so every selected
\* investor has one of the statuses completed, failed, inactive, limited_info.
C26_OutcomeRouting ==
    db_session.ended = "completed" =>
        \A i \in DOMAIN db_session.selected :
            LET vc_id == db_session.selected[i]
                status == investors_data[vc_id].scraping_status
            IN /\ status \in {"completed", "failed", "inactive", "limited_info"}
               /\ ResultsOf(vc_id) = {} => status = "failed"
               /\ \A result \in ResultsOf(vc_id) :
                     IF result.data.validation_type # PyNone
                     THEN status \in {"inactive", "limited_info"}
                     ELSE status = IF Truthy(result.data.vc_id) /\ Truthy(result.data.name)
                                   THEN "completed" ELSE "failed"

----------------------------------------------------------------------------
(* Claims about identifiers *)

\* C28: for every item URL, also one with a trailing slash or a query string, the
\* investor-database key, the vc_id of the scraped record, the in-memory status key, the
\* Work Selector's slug and the cache filter's slug are the same identifier.
C28_IdentifierDeterminism ==
    id_derived # NoDerived =>
        /\ id_derived.database_key = id_derived.record_vc_id
        /\ id_derived.record_vc_id = id_derived.status_key
        /\ id_derived.status_key = id_derived.selector_slug
        /\ id_derived.selector_slug = id_derived.cache_slug

----------------------------------------------------------------------------
(* Claims about the in-memory status of the items *)

\* the attempt counts after _set_vc_status(vc_id, status, ...): 0 for a new item, one
\* more on an update to in_progress, unchanged by any other update
AttemptsCounted(vc_id, status) ==
    vc_status'[vc_id].attempts =
        IF vc_id \notin DOMAIN vc_status THEN 0
        ELSE vc_status[vc_id].attempts + (IF status = "in_progress" THEN 1 ELSE 0)

\* C27: a _set_vc_status call, with or without a unit argument, never changes the
\* discovery unit an item already has; a new item gets attempt count 0 and the count
\* grows by exactly one on each update to in_progress and on no other update.
C27_DiscoveryUnitSetOnce ==
    [][\A vc_id \in TrackIds, status \in SetStatuses, url \in {PyNone, UrlA},
          discovered_on_page \in {0} \cup Pages :
            (TrackerSet /\ vc_status' = _set_vc_status(vc_status, current_page, vc_id, status,
                                           IF url = PyNone THEN url ELSE UrlOfId(vc_id),
                                           discovered_on_page))
            => /\ AttemptsCounted(vc_id, status)
               /\ \A other \in DOMAIN vc_status :
                     vc_status'[other].discovered_on_page =
                         vc_status[other].discovered_on_page]_vars

----------------------------------------------------------------------------
(* Claims about concurrent saves and the loop over the pages *)

\* the session whose write finished last
LastWriter == write_log[Len(write_log)]

\* C29: after two sessions have both finished saving a snapshot of the same unit, loading
\* the unit returns exactly the item list and the status written by the session that
\* wrote last: no mixture and not the earlier writer's snapshot.
C29_LastWriteWins ==
    ret.op = "load_after_saves" =>
        /\ ret.vcs = writers[LastWriter].vcs
        /\ ret.status = writers[LastWriter].status

\* C30: whatever stop condition ends scrape_pages (end page reached, no results, rate
\* limit, safety limit), the page number it returns is the page most recently passed to
\* process_single_page; a run with start_page = end_page = p returns p.
C30_ReturnsLastProcessedPage ==
    pages_ret.stop \in {"end_page", "no_results", "rate_limit", "safety_limit"} =>
        pages_ret.returned = pages_ret.last_processed

====
